---------------------------- MODULE Spec2Model ----------------------------
(***************************************************************************)
(* A model of the Research-Copilot backend: the search-grounded reasoning  *)
(* loops (comparative analysis, web research, deep dive) with the stages'   *)
(* entry and aggregation steps, the LangGraph pipeline of stages over the  *)
(* shared OverallState, the SAS+HAS final synthesis, the section           *)
(* summarizer's retry loop, the structured-output repair layer, section    *)
(* detection with the global merge by type, the three-level hierarchy, the *)
(* paper-analysis stage around them, the session access check, the LLM     *)
(* factory, and the API server's stream and read endpoints on one session. *)
(* Each part has its own specification over the part's variables; the      *)
(* variables of the other parts stay at their initial values.              *)
(***************************************************************************)
EXTENDS Integers, Sequences, FiniteSets, TLC

VARIABLES
    \* ---- search-grounded reasoning loop (one invocation of one call site)
    rSite,       \* which call site runs: "comparative", "web_research", "deep_dive"
    rPc,         \* "start" and "phase1" (web research only), "loop", "loop_done",
                 \* "returned", "raised" (the stage's except clause ran)
    rCtx,        \* paper context read from the state: paper_title, citations
    rIter,       \* the for-loop's iteration variable (next iteration to run)
    rCalls,      \* reasoning LLM invocations made so far
    rResults,    \* comparison_results / all_search_results / sources
    rSteps,      \* len(react_steps)
    rExit,       \* how the loop ended: "none", "finish", "cap", "exhausted", "error"
                 \* (an LLM call raised), "search_error" (tavily_search raised)
    rLast,       \* what the last iteration did
    rAnalysis,   \* state["paper_analysis"]: "None", "{}" or "analysis"
    rErrors,     \* state["errors"], as the stage's except clause leaves it
    rAnyFound,   \* history: some search of this run returned a non-empty list
    rAggCalls,   \* invocations of the aggregation LLM made so far
    rRecord,     \* the value of the stage's output field in the returned update
    \* ---- the LangGraph pipeline (one run of the compiled graph)
    pInput,      \* TRUE iff the run was given a paper_path or a paper_url
    pState,      \* the channels of OverallState the stages read and write
    pActive,     \* the nodes of the current super-step
    pTask,       \* per node: "idle", "running" or "returned" in this super-step
    pUpdate,     \* per node: the update it returned in this super-step
    pRun,        \* "running", "completed" or "aborted" (graph.invoke raised)
    pBegun,      \* history: the nodes that have begun
    pReturned,   \* history: the nodes that have returned
    pFailed,     \* history: the nodes whose except clause ran
    \* ---- _synthesize_final_analysis (one call)
    fPc,         \* "try", "returned", "raised"
    fAttempt,    \* the for-loop's attempt variable
    fSections,   \* len(sections): the number of detected sections
    fSummaries,  \* section_summaries: the phase-1 summaries
    fHierarchy,  \* hierarchy: the phase-2 levels
    fLlmOut,     \* the object the LLM returned, as it returned it
    fResult,     \* the returned ComprehensivePaperAnalysis
    fCalls,      \* invocations of the structured LLM made so far
    fErrors,     \* the message of every exception chain.invoke raised
    fPaper,      \* paper_content: its length and the lines of its first 2000 characters
    fSent,       \* per invocation: the characters and list items it was given
    \* ---- safe_structured_invoke (one call)
    iPc,         \* "try", "returned", "raised"
    iAttempt,    \* the for-loop's attempt variable
    iMaxRetries, \* max_retries
    iFallback,   \* fallback_value: "None" or the object passed in
    iLog,        \* what each attempt met
    iSleeps,     \* the back-off waits taken, in units of retry_delay
    iResult,     \* the returned object
    \* ---- summarize_section (one call)
    sPc,         \* "try", "returned", "raised"
    sAttempt,    \* the for-loop's attempt variable
    sSection,    \* the section: type, title, len(content)
    sSent,       \* len(truncated_content) of every invocation made
    sErrors,     \* the message of every exception chain.invoke raised
    sResult,     \* the returned SectionSummary
    \* ---- detect_sections and _group_sections_globally (one document)
    dPc,         \* "document", "detected", "grouped"
    dLines,      \* paper_content.split('\n')
    dSections,   \* the list detect_sections returned
    dGrouped,    \* the list _group_sections_globally returned
    \* ---- create_hierarchy (one call)
    hPc,         \* "level1", "level2", "level3", "returned", "raised"
    hSummaries,  \* section_summaries: the key_points of every summary
    hLevels,     \* the levels created so far
    hCalls,      \* the level of every self.llm.invoke made, in order
    \* ---- paper_analysis_node (one run of the stage)
    nPc,         \* "load", "process", "hierarchy", "synthesis", "reasoning", "returned"
    nInput,      \* the state at entry: paper_path or paper_url, how extraction
                 \* of it goes, state["errors"]
    nContent,    \* paper_content
    nProcessed,  \* the text process_paper was called with ("None": not called)
    nErrors,     \* state["errors"]
    nAnalysis,   \* state["paper_analysis"]
    nUpdate,     \* the update the stage returned
    \* ---- one request's session access check
    aPc,         \* "request", "identified", "checked"
    aConfig,     \* SUPABASE_URL and SUPABASE_JWT_SECRET
    aCredentials, \* the bearer token of the request, if any
    aSession,    \* the session: its user_id
    aUser,       \* user_data, as get_current_user returned it
    aAllowed,    \* what check_session_access returned
    \* ---- LLMFactory.get_llm (one call)
    lPc,         \* "call", "returned", "raised"
    lAgent,      \* agent
    lConfig,     \* llm_config: provider, api_keys, api_key, agents
    lEnv,        \* the environment variables get_llm reads
    lResult,     \* the provider and the api_key of the client built
    \* ---- the API server: one session, its stream requests and read requests
    vStatus,     \* session["status"] in the store
    vStream,     \* per stream request: "new", "accepted", "rejected", "streaming", "done", "failed"
    vLast        \* the last answer of a report / export / chat request

reactVars == <<rSite, rPc, rCtx, rIter, rCalls, rResults, rSteps, rExit, rLast,
               rAnalysis, rErrors, rAnyFound, rAggCalls, rRecord>>

pipeVars == <<pInput, pState, pActive, pTask, pUpdate, pRun, pBegun, pReturned, pFailed>>

synthVars == <<fPc, fAttempt, fSections, fSummaries, fHierarchy, fLlmOut, fResult,
               fCalls, fErrors, fPaper, fSent>>

invokeVars == <<iPc, iAttempt, iMaxRetries, iFallback, iLog, iSleeps, iResult>>

summVars == <<sPc, sAttempt, sSection, sSent, sErrors, sResult>>

sasVars == <<dPc, dLines, dSections, dGrouped>>

hasVars == <<hPc, hSummaries, hLevels, hCalls>>

nodeVars == <<nPc, nInput, nContent, nProcessed, nErrors, nAnalysis, nUpdate>>

authVars == <<aPc, aConfig, aCredentials, aSession, aUser, aAllowed>>

llmVars == <<lPc, lAgent, lConfig, lEnv, lResult>>

serverVars == <<vStatus, vStream, vLast>>

vars == <<reactVars, pipeVars, synthVars, invokeVars, summVars, sasVars, hasVars, nodeVars, authVars, llmVars,
         serverVars>>

\* the parts that do not run keep their variables at these values
ReactIdle ==
    /\ rSite = "none" /\ rPc = "idle" /\ rCtx = <<>> /\ rIter = 0 /\ rCalls = 0
    /\ rResults = <<>> /\ rSteps = 0 /\ rExit = "none" /\ rLast = <<>>
    /\ rAnalysis = "None" /\ rErrors = <<>> /\ rAnyFound = FALSE /\ rAggCalls = 0
    /\ rRecord = <<>>

PipeIdle ==
    /\ pInput = FALSE /\ pState = <<>> /\ pActive = {} /\ pTask = <<>>
    /\ pUpdate = <<>> /\ pRun = "idle" /\ pBegun = {} /\ pReturned = {}
    /\ pFailed = {}

SynthIdle ==
    /\ fPc = "idle" /\ fAttempt = 0 /\ fSections = 0 /\ fSummaries = <<>>
    /\ fHierarchy = <<>> /\ fLlmOut = <<>> /\ fResult = <<>>
    /\ fCalls = 0 /\ fErrors = <<>> /\ fPaper = <<>> /\ fSent = <<>>

InvokeIdle ==
    /\ iPc = "idle" /\ iAttempt = 0 /\ iMaxRetries = 0 /\ iFallback = "None"
    /\ iLog = <<>> /\ iSleeps = <<>> /\ iResult = "None"

SummIdle ==
    /\ sPc = "idle" /\ sAttempt = 0 /\ sSection = <<>> /\ sSent = <<>>
    /\ sErrors = <<>> /\ sResult = <<>>

SasIdle == dPc = "idle" /\ dLines = <<>> /\ dSections = <<>> /\ dGrouped = <<>>

HasIdle == hPc = "idle" /\ hSummaries = <<>> /\ hLevels = <<>> /\ hCalls = <<>>

NodeIdle == nPc = "idle" /\ nInput = <<>> /\ nContent = "None" /\ nProcessed = "None"
            /\ nErrors = <<>> /\ nAnalysis = "None" /\ nUpdate = <<>>

AuthIdle ==
    /\ aPc = "idle" /\ aConfig = <<>> /\ aCredentials = <<>> /\ aSession = <<>>
    /\ aUser = <<>> /\ aAllowed = FALSE

LlmIdle ==
    /\ lPc = "idle" /\ lAgent = "None" /\ lConfig = <<>> /\ lEnv = <<>>
    /\ lResult = <<>>

ServerIdle == vStatus = "None" /\ vStream = <<>> /\ vLast = <<>>

ReactOnly == UNCHANGED <<pipeVars, synthVars, invokeVars, summVars, sasVars, hasVars, nodeVars, authVars, llmVars, serverVars>>

PipeOnly == UNCHANGED <<reactVars, synthVars, invokeVars, summVars, sasVars, hasVars, nodeVars, authVars, llmVars, serverVars>>

SynthOnly == UNCHANGED <<reactVars, pipeVars, invokeVars, summVars, sasVars, hasVars, nodeVars, authVars, llmVars, serverVars>>

InvokeOnly == UNCHANGED <<reactVars, pipeVars, synthVars, summVars, sasVars, hasVars, nodeVars, authVars, llmVars, serverVars>>

SummOnly == UNCHANGED <<reactVars, pipeVars, synthVars, invokeVars, sasVars, hasVars, nodeVars, authVars, llmVars, serverVars>>

SasOnly == UNCHANGED <<reactVars, pipeVars, synthVars, invokeVars, summVars, hasVars, nodeVars, authVars, llmVars, serverVars>>

HasOnly == UNCHANGED <<reactVars, pipeVars, synthVars, invokeVars, summVars, sasVars, nodeVars, authVars, llmVars, serverVars>>

NodeOnly == UNCHANGED <<reactVars, pipeVars, synthVars, invokeVars, summVars, sasVars, hasVars, authVars, llmVars, serverVars>>

AuthOnly == UNCHANGED <<reactVars, pipeVars, synthVars, invokeVars, summVars, sasVars, hasVars, nodeVars, llmVars, serverVars>>

LlmOnly == UNCHANGED <<reactVars, pipeVars, synthVars, invokeVars, summVars, sasVars, hasVars, nodeVars, authVars, serverVars>>

ServerOnly == UNCHANGED <<reactVars, pipeVars, synthVars, invokeVars, summVars, sasVars, hasVars, nodeVars, authVars, llmVars>>

Min(a, b) == IF a < b THEN a ELSE b

(***************************************************************************)
(* Text.  URLs, titles and queries are strings of a small alphabet; strip  *)
(* and lower are the str methods restricted to that alphabet.              *)
(***************************************************************************)
Strip(s) ==
    CASE s = " http://a " -> "http://a"
      [] s = "  "         -> ""
      [] s = " q "        -> "q"
      [] OTHER            -> s

Lower(s) ==
    CASE s = "HTTP://A"   -> "http://a"
      [] s = "Paper A"    -> "paper a"
      [] s = "Web_Search" -> "web_search"
      [] s = "FINISH"     -> "finish"
      [] s = "Failed"     -> "failed"
      [] s = "Error"      -> "error"
      [] s = "Connection" -> "connection"
      [] OTHER            -> s

Upper(s) ==
    CASE s = "finish"     -> "FINISH"
      [] s = "web_search" -> "WEB_SEARCH"
      [] s = "Web_Search" -> "WEB_SEARCH"
      [] s = "reflect"    -> "REFLECT"
      [] s = "abstract"   -> "ABSTRACT"
      [] s = "methodology" -> "METHODOLOGY"
      [] OTHER            -> s

\* key = (url or title).lower(), url and title stripped first
ResultKey(r) ==
    LET url   == Strip(r.url)
        title == Strip(r.title)
    IN  Lower(IF url # "" THEN url ELSE title)

(***************************************************************************)
(* The search collaborator.  tavily_search returns a list of at most       *)
(* max_results records; its body runs inside one try block.                *)
(***************************************************************************)
PageUrls ==
    << "http://a", "http://b", "http://c", "http://d", "http://e", "http://f",
       "http://g", "http://h", "http://i", "http://j", "http://k", "http://l",
       "http://m", "http://n", "http://o", "http://p" >>

\* a full page of n results with pairwise different URLs
Page(n) == [i \in 1..n |-> [url |-> PageUrls[i], title |-> "T"]]

\* a reply with case and padding variants of one URL, a title-only result
\* and a result with neither URL nor title
MixedReply ==
    << [url |-> "HTTP://A",   title |-> "T"],
       [url |-> " http://a ", title |-> "T"],
       [url |-> "",           title |-> "Paper A"],
       [url |-> "",           title |-> "  "] >>

\* what one call of tavily_search meets: the api_key argument, the
\* TAVILY_API_KEY environment variable, what requests.post does, the status
\* code of the response and what response.json() finds in the body
PlainSearch ==
    [api_key |-> "key", env_key |-> "None", transport |-> "response",
     status |-> 200, body |-> "page"]

SearchConditions ==
    { [PlainSearch EXCEPT !.api_key = a, !.env_key = e] :
          a \in {"None", "  ", "key"}, e \in {"None", "", "key"} }
    \cup { [PlainSearch EXCEPT !.transport = t] :
              t \in {"Timeout", "ConnectionError", "Exception"} }
    \cup { [PlainSearch EXCEPT !.status = c] : c \in {401, 429, 500} }
    \cup { [PlainSearch EXCEPT !.body = b] :
              b \in {"mixed", "no_results_key", "not_json", "not_object"} }

\* not api_key or api_key.strip() == ""
NoKey(key) == key = "None" \/ Strip(key) = ""

\* the key the request is made with: the argument, else the environment's
SearchKey(c) == IF NoKey(c.api_key) THEN c.env_key ELSE c.api_key

\* the try block: the exception it raises ("none" when it runs to a
\* return) and the value it returns
SearchTry(c, maxr) ==
    IF NoKey(SearchKey(c))          THEN [exc |-> "none", value |-> <<>>]
    ELSE IF c.transport # "response" THEN [exc |-> c.transport, value |-> <<>>]
    ELSE IF c.status = 401          THEN [exc |-> "none", value |-> <<>>]
    ELSE IF c.status = 429          THEN [exc |-> "none", value |-> <<>>]
    ELSE IF c.status # 200          THEN [exc |-> "none", value |-> <<>>]
    ELSE CASE c.body = "not_json"   -> [exc |-> "JSONDecodeError", value |-> <<>>]
           [] c.body = "not_object" -> [exc |-> "AttributeError", value |-> <<>>]
           [] c.body = "page"       -> [exc |-> "none", value |-> Page(maxr)]
           [] c.body = "mixed"      ->
                [exc |-> "none", value |-> SubSeq(MixedReply, 1, Min(Len(MixedReply), maxr))]
           [] OTHER                 -> [exc |-> "none", value |-> <<>>]

\* (mutant) the except clauses without the final `except Exception`
SearchHandlesNetworkOnly(exc) == exc \in {"Timeout", "ConnectionError", "JSONDecodeError"}

\* the except clauses: Timeout, RequestException, Exception
SearchHandles(exc) ==
    \/ exc = "Timeout"
    \/ exc \in {"Timeout", "ConnectionError", "JSONDecodeError"}
    \/ exc \in {"Timeout", "ConnectionError", "JSONDecodeError", "AttributeError", "Exception"}

\* the call met a failure: no key, no response, an error status, or a body
\* that is not a JSON object
SearchFailure(c) ==
    \/ NoKey(SearchKey(c))
    \/ c.transport # "response"
    \/ c.status # 200
    \/ c.body \in {"not_json", "not_object"}

\* one call: whether it met a failure, whether it raised, and the list returned
SearchOutcome(c, maxr) ==
    LET try == SearchTry(c, maxr)
    IN  [failed  |-> SearchFailure(c),
         raised  |-> try.exc # "none" /\ ~SearchHandles(try.exc),
         results |-> IF try.exc = "none" THEN try.value ELSE <<>>]

tavily_search(maxr) == { SearchOutcome(c, maxr) : c \in SearchConditions }

(***************************************************************************)
(* The LLM's reasoning response, as the parser sees it: whether the        *)
(* ACTION: and ACTION_INPUT: markers occur and the text after them.        *)
(***************************************************************************)
\* "FINISH" in action.upper()
HasFinish(action) == action \in {"FINISH", "finish", "web_search or FINISH"}

\* "web_search" in action.lower()
HasWebSearch(action) == action \in {"web_search", "Web_Search", "web_search or FINISH"}

Responses ==
    { [hasAction |-> FALSE, action |-> "",                     hasInput |-> FALSE, input |-> ""],
      [hasAction |-> TRUE,  action |-> "FINISH",               hasInput |-> FALSE, input |-> ""],
      [hasAction |-> TRUE,  action |-> "finish",               hasInput |-> TRUE,  input |-> "  "],
      [hasAction |-> TRUE,  action |-> "FINISH",               hasInput |-> TRUE,  input |-> " q "],
      [hasAction |-> TRUE,  action |-> "web_search",           hasInput |-> TRUE,  input |-> " q "],
      [hasAction |-> TRUE,  action |-> "Web_Search",           hasInput |-> TRUE,  input |-> "  "],
      [hasAction |-> TRUE,  action |-> "web_search or FINISH", hasInput |-> FALSE, input |-> ""],
      [hasAction |-> TRUE,  action |-> "reflect",              hasInput |-> TRUE,  input |-> " q "] }

\* action defaults to "FINISH", action_input to ""
ParseAction(resp) == IF resp.hasAction THEN resp.action ELSE "FINISH"
ParseInput(resp)  == IF resp.hasInput THEN Strip(resp.input) ELSE ""

(***************************************************************************)
(* The loop's constants, per call site.                                    *)
(***************************************************************************)
CompMaxIterations == 5
CompMinPapers     == 5
CompResultCap     == 15
CompMaxResults    == 5
WebMaxIterations  == 8
WebMinResults     == 15
WebResultCap      == 30
WebMaxResults     == 7
WebCitationCap    == 3
WebCitationMaxResults == 2
DeepMaxIterations == 5
DeepMaxResults    == 3

\* the longest citations list of the paper contexts tried
MaxCitations == 3

Citations(n) == [i \in 1..n |-> "c"]

\* the paper context the stage reads from paper_analysis
Contexts == [paper_title : {"", "Paper A"}, citations : {Citations(n) : n \in 0..MaxCitations}]

\* web_research.retrieval_results as comparative analysis finds it
ExistingResults == { <<>>, Page(1), Page(CompResultCap + 1) }

\* the per-search de-duplication: a fresh `seen` set for every reply
RECURSIVE DedupFrom(_, _)
DedupFrom(reply, seen) ==
    IF reply = <<>> THEN <<>>
    ELSE LET key == ResultKey(Head(reply))
         IN  IF key # "" /\ key \notin seen
             THEN <<Head(reply)>> \o DedupFrom(Tail(reply), seen \cup {key})
             ELSE DedupFrom(Tail(reply), seen)

Dedup(collected, reply) == collected \o DedupFrom(reply, {})

\* (mutant) the fallback query without its fixed suffix
CompFallbackQueryBare(ctx) ==
    IF ctx.citations # <<>> THEN ctx.citations[1] ELSE ctx.paper_title

\* the query substituted when the forced search has no action_input
CompFallbackQuery(ctx) ==
    IF ctx.citations # <<>>
    THEN ctx.citations[1] \o " paper comparison"
    ELSE ctx.paper_title \o " related work comparison"

WebFallbackQuery(ctx) ==
    IF ctx.paper_title # ""
    THEN ctx.paper_title \o " related work"
    ELSE "recent work " \o "tags"

NoLast == [forced |-> FALSE, searched |-> FALSE, query |-> "", failed |-> FALSE]

\* the "agent" of the entry the stage's except clause appends to errors
AgentName(site) == IF site = "comparative" THEN "comparative_analysis" ELSE site

\* the stage's except clause: the errors list of the state with one more entry
StageFails(message) ==
    /\ rPc' = "raised"
    /\ rErrors' = Append(rErrors, [agent |-> AgentName(rSite), error |-> message])

\* (mutant) a loop that only its break statements end
LoopControlNoRange(doFinish, count, cap, maxIter) ==
    IF doFinish
    THEN rPc' = "loop_done" /\ rExit' = "finish" /\ rIter' = rIter
    ELSE IF count >= cap
    THEN rPc' = "loop_done" /\ rExit' = "cap" /\ rIter' = rIter
    ELSE rPc' = "loop" /\ rExit' = rExit /\ rIter' = rIter + 1

\* how an iteration ends: break on FINISH, break on the result cap, or the
\* next value of range(max_iterations), if any
LoopControl(doFinish, count, cap, maxIter) ==
    IF doFinish
    THEN rPc' = "loop_done" /\ rExit' = "finish" /\ rIter' = rIter
    ELSE IF count >= cap
    THEN rPc' = "loop_done" /\ rExit' = "cap" /\ rIter' = rIter
    ELSE IF rIter + 1 >= maxIter
    THEN rPc' = "loop_done" /\ rExit' = "exhausted" /\ rIter' = rIter + 1
    ELSE rPc' = "loop" /\ rExit' = rExit /\ rIter' = rIter + 1

\* one iteration of the loop body of comparative analysis and web research:
\* parse, forced continuation, search or finish, append the step with its
\* observation, cap check
GroundedIteration(resp, reply, minResults, cap, maxIter, fallback) ==
    LET parsed   == ParseAction(resp)
        input0   == ParseInput(resp)
        forced   == HasFinish(parsed) /\ Len(rResults) < minResults
        action   == IF forced THEN "web_search" ELSE parsed
        input    == IF forced /\ input0 = "" THEN fallback ELSE input0
        doSearch == HasWebSearch(action) /\ input # ""
        doFinish == ~doSearch /\ HasFinish(action)
        results2 == IF doSearch THEN Dedup(rResults, reply.results) ELSE rResults
    IN  /\ rCalls' = rCalls + 1
        /\ IF doSearch /\ reply.raised
           THEN /\ StageFails("e")
                /\ rExit' = "search_error"
                /\ rLast' = [forced |-> forced, searched |-> TRUE, query |-> input,
                             failed |-> TRUE]
                /\ UNCHANGED <<rIter, rResults, rSteps, rAnyFound>>
           ELSE /\ rResults' = results2
                /\ rSteps' = rSteps + 1
                /\ rLast' = [forced |-> forced, searched |-> doSearch,
                             query |-> IF doSearch THEN input ELSE "",
                             failed |-> doSearch /\ reply.failed]
                /\ rAnyFound' = (rAnyFound \/ (doSearch /\ reply.results # <<>>))
                /\ LoopControl(doFinish, Len(results2), cap, maxIter)
                /\ UNCHANGED rErrors
        /\ UNCHANGED <<rSite, rCtx, rAnalysis, rAggCalls, rRecord>>

\* llm.invoke raises inside the stage's try block: the stage's except clause ends it
ReasoningCallRaises ==
    /\ rCalls' = rCalls + 1
    /\ IF rSite = "deep_dive"
       THEN rPc' = "raised" /\ UNCHANGED rErrors
       ELSE StageFails("e")
    /\ rExit' = "error"
    /\ UNCHANGED <<rSite, rCtx, rIter, rResults, rSteps, rLast, rAnalysis, rAnyFound,
                   rAggCalls, rRecord>>

CompIteration ==
    /\ ReactOnly
    /\ rSite = "comparative" /\ rPc = "loop"
    /\ \/ \E resp \in Responses, reply \in tavily_search(CompMaxResults) :
            GroundedIteration(resp, reply, CompMinPapers, CompResultCap,
                              CompMaxIterations, CompFallbackQuery(rCtx))
       \/ ReasoningCallRaises

\* (mutant) a test for None alone
NoAnalysisNoneOnly(paper_analysis) == paper_analysis = "None"

\* not paper_analysis
NoAnalysis(paper_analysis) == paper_analysis \in {"None", "{}"}

\* the entry of web research: without a paper analysis the stage raises
\* ValueError before it extracts context, builds an LLM or searches
WebStart ==
    /\ ReactOnly
    /\ rSite = "web_research" /\ rPc = "start"
    /\ IF NoAnalysis(rAnalysis)
       THEN StageFails("No paper analysis available") /\ rExit' = "error"
       ELSE rPc' = "phase1" /\ UNCHANGED <<rErrors, rExit>>
    /\ UNCHANGED <<rSite, rCtx, rIter, rCalls, rResults, rSteps, rLast, rAnalysis,
                   rAnyFound, rAggCalls, rRecord>>

\* phase 1 of web research: one search per citation, first three citations,
\* every result kept
WebPhase1 ==
    /\ ReactOnly
    /\ rSite = "web_research" /\ rPc = "phase1"
    /\ \E replies \in [1..Min(WebCitationCap, Len(rCtx.citations)) -> tavily_search(WebCitationMaxResults)] :
         LET RECURSIVE Cat(_)
             Cat(i) == IF i > Min(WebCitationCap, Len(rCtx.citations)) THEN <<>>
                       ELSE replies[i].results \o Cat(i + 1)
         IN  IF \E i \in DOMAIN replies : replies[i].raised
             THEN /\ StageFails("e") /\ rExit' = "search_error"
                  /\ UNCHANGED <<rResults, rAnyFound>>
             ELSE /\ rResults' = Cat(1)
                  /\ rAnyFound' = (Cat(1) # <<>>)
                  /\ rPc' = "loop"
                  /\ UNCHANGED <<rErrors, rExit>>
    /\ UNCHANGED <<rSite, rCtx, rIter, rCalls, rSteps, rLast, rAnalysis, rAggCalls, rRecord>>

WebIteration ==
    /\ ReactOnly
    /\ rSite = "web_research" /\ rPc = "loop"
    /\ \/ \E resp \in Responses, reply \in tavily_search(WebMaxResults) :
            GroundedIteration(resp, reply, WebMinResults, WebResultCap,
                              WebMaxIterations, WebFallbackQuery(rCtx))
       \/ ReasoningCallRaises

\* the deep-dive response: the text after ACTION: is split at its first colon
DeepResponses ==
    { [hasAction |-> FALSE, action |-> "",           hasColon |-> FALSE, input |-> ""],
      [hasAction |-> TRUE,  action |-> "FINISH",     hasColon |-> FALSE, input |-> ""],
      [hasAction |-> TRUE,  action |-> "finish",     hasColon |-> TRUE,  input |-> " q "],
      [hasAction |-> TRUE,  action |-> "web_search", hasColon |-> TRUE,  input |-> " q "],
      [hasAction |-> TRUE,  action |-> "Web_Search", hasColon |-> FALSE, input |-> ""],
      [hasAction |-> TRUE,  action |-> "reflect",    hasColon |-> TRUE,  input |-> " q "] }

\* one iteration of the deep-dive loop: every source of the reply is kept,
\* a search that raises is an observation, FINISH breaks before the step is
\* appended, an unknown action is a step
DeepIterationBody(resp, reply) ==
    LET action   == ParseAction(resp)
        doSearch == Lower(action) = "web_search"
        doFinish == ~doSearch /\ Upper(action) = "FINISH"
        kept     == IF doSearch /\ ~reply.raised THEN reply.results ELSE <<>>
    IN  /\ rCalls' = rCalls + 1
        /\ rResults' = rResults \o kept
        /\ rSteps' = IF doFinish THEN rSteps ELSE rSteps + 1
        /\ rLast' = [forced |-> FALSE, searched |-> doSearch,
                     query |-> IF doSearch /\ resp.hasColon THEN Strip(resp.input) ELSE "",
                     failed |-> doSearch /\ reply.failed]
        /\ rAnyFound' = (rAnyFound \/ kept # <<>>)
        /\ IF doFinish
           THEN rPc' = "loop_done" /\ rExit' = "finish" /\ rIter' = rIter
           ELSE IF rIter + 1 >= DeepMaxIterations
           THEN rPc' = "loop_done" /\ rExit' = "exhausted" /\ rIter' = rIter + 1
           ELSE rPc' = "loop" /\ rExit' = rExit /\ rIter' = rIter + 1
        /\ UNCHANGED <<rSite, rCtx, rAnalysis, rErrors, rAggCalls, rRecord>>

DeepIteration ==
    /\ ReactOnly
    /\ rSite = "deep_dive" /\ rPc = "loop"
    /\ \/ \E resp \in DeepResponses, reply \in tavily_search(DeepMaxResults) :
            DeepIterationBody(resp, reply)
       \/ ReasoningCallRaises

\* past the loop its iteration variable and the last iteration's action,
\* query and observation are no longer read
LoopLocalsEnd == rIter' = 0 /\ rLast' = NoLast

\* max_retries of the aggregation's safe_structured_invoke
CompAggMaxRetries == 2

\* (mutant) a placeholder for the empty list alone
InsufficientDataWhenEmpty(comparison_results) == Len(comparison_results) < 1

\* len(comparison_results) < 2
InsufficientData(comparison_results) == Len(comparison_results) < 2

\* after the loop of comparative analysis: the placeholder below two
\* collected results, else safe_structured_invoke with a fallback instance,
\* which returns the LLM's analysis from one of its attempts or the
\* fallback after the last
CompAggregation ==
    /\ ReactOnly
    /\ rSite = "comparative" /\ rPc = "loop_done"
    /\ IF InsufficientData(rResults)
       THEN /\ rRecord' = [comparative_analysis_status  |-> "Incomplete - insufficient data",
                           comparative_analysis_results |-> "[]",
                           sources_used |-> Len(rResults)]
            /\ UNCHANGED rAggCalls
       ELSE \E n \in 1..(CompAggMaxRetries + 1), returned \in {"analysis", "fallback"} :
              /\ returned = "fallback" => n = CompAggMaxRetries + 1
              /\ rAggCalls' = rAggCalls + n
              /\ rRecord' = [comparative_analysis_status  |-> IF returned = "analysis" THEN "llm" ELSE "",
                             comparative_analysis_results |-> IF returned = "analysis" THEN "llm" ELSE "[]",
                             sources_used |-> Len(rResults)]
    /\ rPc' = "returned"
    /\ LoopLocalsEnd
    /\ UNCHANGED <<rSite, rCtx, rCalls, rResults, rSteps, rExit, rAnalysis, rErrors, rAnyFound>>

\* after the loop of web research: the aggregation chain is invoked once
\* on whatever was collected; it returns the structured output or raises
WebAggregation ==
    /\ ReactOnly
    /\ rSite = "web_research" /\ rPc = "loop_done"
    /\ rAggCalls' = rAggCalls + 1
    /\ \/ /\ rPc' = "returned"
          /\ rRecord' = [retrieval_results |-> rResults, react_steps |-> rSteps]
          /\ UNCHANGED rErrors
       \/ StageFails("e") /\ UNCHANGED rRecord
    /\ LoopLocalsEnd
    /\ UNCHANGED <<rSite, rCtx, rCalls, rResults, rSteps, rExit, rAnalysis, rAnyFound>>

\* state["errors"] when the stage starts: empty, or the entry of the
\* paper-analysis stage that left no analysis
PriorErrors(paper_analysis) ==
    IF paper_analysis = "analysis" THEN {<<>>}
    ELSE {<<>>, <<[agent |-> "paper_analysis", error |-> "e"]>>}

ReactInit ==
    /\ PipeIdle /\ SynthIdle /\ InvokeIdle /\ SummIdle /\ SasIdle /\ HasIdle /\ NodeIdle /\ AuthIdle /\ LlmIdle /\ ServerIdle
    /\ rSite \in {"comparative", "web_research", "deep_dive"}
    /\ rAnalysis \in (IF rSite = "web_research" THEN {"None", "{}", "analysis"}
                      ELSE {"analysis"})
    /\ rCtx \in (IF rSite = "deep_dive" \/ rAnalysis # "analysis"
                 THEN {[paper_title |-> "", citations |-> <<>>]} ELSE Contexts)
    /\ rPc = IF rSite = "web_research" THEN "start" ELSE "loop"
    /\ rIter = 0 /\ rCalls = 0 /\ rSteps = 0
    /\ rResults \in (IF rSite = "comparative" THEN ExistingResults ELSE {<<>>})
    /\ rExit = "none"
    /\ rLast = NoLast
    /\ rErrors \in PriorErrors(rAnalysis)
    /\ rAnyFound = FALSE /\ rAggCalls = 0 /\ rRecord = <<>>

ReactNext ==
    \/ CompIteration \/ WebStart \/ WebPhase1 \/ WebIteration \/ DeepIteration
    \/ CompAggregation \/ WebAggregation

SpecReact == ReactInit /\ [][ReactNext]_vars

\* the loop is over: it broke or ran out, and the stage may have gone on to
\* its aggregation and returned, or its except clause ran
LoopEnded == rPc \in {"loop_done", "returned", "raised"}

KeysUnique(results) ==
    \A i, j \in 1..Len(results) :
        i # j => ResultKey(results[i]) # ResultKey(results[j])

(***************************************************************************)
(* C1: every search-grounded reasoning loop terminates: comparative        *)
(* analysis makes at most 5 reasoning calls, web research at most 8, deep  *)
(* dive at most 5.  A running loop always has budget left and can take a   *)
(* step, and every step of a running loop makes exactly one reasoning call *)
(* and either ends the loop or moves to the next iteration.                *)
(***************************************************************************)
C1_CallBudget ==
    /\ rSite = "comparative"  => rCalls <= 5
    /\ rSite = "web_research" => rCalls <= 8
    /\ rSite = "deep_dive"    => rCalls <= 5
    /\ rPc = "loop" => rCalls = rIter
    /\ LoopEnded \/ ENABLED ReactNext

C1_LoopsTerminate ==
    /\ []C1_CallBudget
    /\ [][rPc = "loop" => /\ rCalls' = rCalls + 1
                          /\ (rPc' = "loop" /\ rIter' = rIter + 1) \/ LoopEnded']_vars

\* a loop with an LLM that made every iteration a forced search runs out of
\* iterations after the web-research cap of 8 calls
C1_Witness ==
    /\ rSite = "web_research" /\ rExit = "exhausted" /\ rCalls = 8
    /\ rLast.forced

(***************************************************************************)
(* C2: in comparative analysis (minimum 5) and web research (minimum 15)   *)
(* the loop never ends through FINISH below the minimum: a parsed FINISH   *)
(* below the minimum runs a search with a non-empty query in the same      *)
(* iteration, and a loop that ended below the minimum ran out of           *)
(* iterations.                                                             *)
(***************************************************************************)
C2_MinimumOf(site) == IF site = "comparative" THEN 5 ELSE 15

C2_ForcedContinuation ==
    rSite \in {"comparative", "web_research"} =>
        /\ rExit = "finish" => Len(rResults) >= C2_MinimumOf(rSite)
        /\ rLast.forced => rLast.searched /\ rLast.query # ""
        /\ (rPc = "loop_done" /\ Len(rResults) < C2_MinimumOf(rSite)) => rExit = "exhausted"

\* the LLM answered FINISH without a query on a paper with no title and no
\* citations, the fallback query was searched, and the loop ran out below 5
C2_Witness ==
    /\ rSite = "comparative" /\ rCtx.paper_title = "" /\ rCtx.citations = <<>>
    /\ rLast.forced /\ rLast.searched /\ rLast.query = " related work comparison"
    /\ rExit = "exhausted" /\ Len(rResults) < 5

(***************************************************************************)
(* C3: no two entries of the collected-result list of comparative analysis *)
(* or web research have the same key lowercase(url or title).              *)
(***************************************************************************)
C3_CollectedKeysUnique ==
    rSite \in {"comparative", "web_research"} => KeysUnique(rResults)

(***************************************************************************)
(* C12: when comparative analysis has collected fewer than two results     *)
(* after its loop, it returns the placeholder record: status "Incomplete - *)
(* insufficient data", an empty results list, sources_used equal to the    *)
(* number of collected results, and no aggregation LLM invocation.         *)
(***************************************************************************)
C12_PlaceholderBelowTwo ==
    /\ (rSite = "comparative" /\ rPc = "loop_done" /\ Len(rResults) < 2) =>
          ENABLED CompAggregation
    /\ (rSite = "comparative" /\ rPc = "returned" /\ Len(rResults) < 2) =>
          /\ rRecord.comparative_analysis_status = "Incomplete - insufficient data"
          /\ rRecord.comparative_analysis_results = "[]"
          /\ rRecord.sources_used = Len(rResults)
          /\ rAggCalls = 0

\* one result found by web research, no search added to it, the loop ran
\* out and the placeholder counts one source
C12_Witness ==
    /\ rSite = "comparative" /\ rPc = "returned" /\ rExit = "exhausted"
    /\ Len(rResults) = 1 /\ rRecord.sources_used = 1 /\ rAggCalls = 0
    /\ rRecord.comparative_analysis_status = "Incomplete - insufficient data"

(***************************************************************************)
(* C13: a comparative-analysis run in which every search returned the      *)
(* empty list returns the "Incomplete - insufficient data" placeholder     *)
(* without invoking the aggregation LLM, whatever web_research held when   *)
(* the stage started.                                                      *)
(***************************************************************************)
C13_EmptySearchesGivePlaceholder ==
    (rSite = "comparative" /\ rPc = "returned" /\ ~rAnyFound) =>
        /\ rRecord.comparative_analysis_status = "Incomplete - insufficient data"
        /\ rAggCalls = 0

(***************************************************************************)
(* C14: web research that ends its loop with fewer than two collected      *)
(* results never invokes the aggregation LLM.                              *)
(***************************************************************************)
C14_WebAggregationSkippedBelowTwo ==
    (rSite = "web_research" /\ Len(rResults) < 2) => rAggCalls = 0

(***************************************************************************)
(* C19: tavily_search never raises and returns the empty list on every     *)
(* failure (no key, timeout, network error, HTTP 401, 429 or another error *)
(* status, a body that is not a JSON object); a loop iteration of          *)
(* comparative analysis or web research whose search failed appends its    *)
(* step, adds no result and goes on to the next iteration or to the loop's *)
(* ordinary end, and no stage is ended by a search.                        *)
(***************************************************************************)
C19_Failures ==
    { c \in SearchConditions :
        \/ (c.api_key \in {"None", "  "} /\ c.env_key \in {"None", ""})
        \/ c.transport \in {"Timeout", "ConnectionError", "Exception"}
        \/ c.status \in {401, 429, 500}
        \/ c.body \in {"not_json", "not_object"} }

C19_EveryFailureReturnsEmpty ==
    \A c \in SearchConditions, maxr \in {DeepMaxResults, CompMaxResults, WebMaxResults} :
        /\ ~SearchOutcome(c, maxr).raised
        /\ c \in C19_Failures => SearchOutcome(c, maxr).results = <<>>

C19_SearchNeverRaises == C19_EveryFailureReturnsEmpty /\ rExit # "search_error"

C19_FailedSearchContinues ==
    /\ []C19_SearchNeverRaises
    /\ [][(/\ rSite \in {"comparative", "web_research"} /\ rPc = "loop"
            /\ rLast'.failed /\ rExit' # "error")
           => /\ rSteps' = rSteps + 1
              /\ rResults' = rResults
              /\ rErrors' = rErrors
              /\ \/ rPc' = "loop" /\ rIter' = rIter + 1
                 \/ rPc' = "loop_done" /\ rExit' \in {"exhausted", "cap"}]_vars

\* a comparative loop whose searches all failed: five steps, nothing
\* collected, the loop ran out and the stage returned
C19_Witness ==
    /\ rSite = "comparative" /\ rPc = "loop_done" /\ rExit = "exhausted"
    /\ rLast.searched /\ rLast.failed /\ rSteps = 5 /\ rResults = <<>>
    /\ rErrors = <<>>

(***************************************************************************)
(* C20: web research started without a paper analysis fails at once: no    *)
(* search, no LLM invocation, and the returned errors list is the state's  *)
(* list with exactly one new entry, whose agent is "web_research".         *)
(***************************************************************************)
C20_NothingRan ==
    (rSite = "web_research" /\ rAnalysis \in {"None", "{}"} /\ rPc # "start") =>
        /\ rPc = "raised"
        /\ rCalls = 0 /\ rAggCalls = 0 /\ rSteps = 0
        /\ rResults = <<>> /\ ~rAnyFound /\ ~rLast.searched
        /\ rRecord = <<>>
        /\ Len(rErrors) >= 1
        /\ rErrors[Len(rErrors)].agent = "web_research"
        /\ \A i \in 1..(Len(rErrors) - 1) : rErrors[i].agent # "web_research"

C20_FailsWithoutAnalysis ==
    /\ []C20_NothingRan
    /\ [][(rSite = "web_research" /\ rAnalysis \in {"None", "{}"} /\ rPc = "start")
           => /\ rPc' = "raised"
              /\ Len(rErrors') = Len(rErrors) + 1
              /\ SubSeq(rErrors', 1, Len(rErrors)) = rErrors]_vars

\* the state held an empty analysis and the entry of the failed paper
\* analysis; the stage added its own entry behind it
C20_Witness ==
    /\ rSite = "web_research" /\ rAnalysis = "{}" /\ rPc = "raised"
    /\ Len(rErrors) = 2 /\ rErrors[1].agent = "paper_analysis"
    /\ rErrors[2] = [agent |-> "web_research", error |-> "No paper analysis available"]
    /\ rCalls = 0 /\ rAggCalls = 0

(***************************************************************************)
(* C25: once the collected-result count has reached the call site's cap    *)
(* (15 for comparative analysis, 30 for web research) the loop makes no    *)
(* further reasoning call and no further search, also when comparative     *)
(* analysis starts with 15 or more results carried over from web research. *)
(***************************************************************************)
C25_CapOf(site) == IF site = "comparative" THEN 15 ELSE 30

C25_NoCallAtCap ==
    [][(/\ rSite \in {"comparative", "web_research"}
        /\ rPc \in {"loop", "loop_done"}
        /\ Len(rResults) >= C25_CapOf(rSite))
       => /\ rCalls' = rCalls
          /\ rResults' = rResults]_vars

(***************************************************************************)
(* The pipeline.  The compiled StateGraph runs in super-steps: the nodes   *)
(* of a step read the channel values of the step's start, their updates    *)
(* are applied together once all of them have returned, and the edges of   *)
(* the nodes that ran select the nodes of the next step.  OverallState     *)
(* declares no reducer, so every key is a last-value channel: two updates  *)
(* of one key in one step make the run raise InvalidUpdateError.           *)
(***************************************************************************)
Nodes ==
    { "paper_analysis", "web_research", "advisor_specialist", "sota_tracker",
      "comparative_analysis", "direction_advisor", "report_generation" }

Specialists == {"sota_tracker", "comparative_analysis"}

\* the state handed to graph.invoke: every stage field None, errors and
\* next_agents empty lists, advisor_metadata an empty dict
InitialState ==
    [ paper_analysis |-> "None", web_research |-> "None", sota_tracker |-> "None",
      comparative_analysis |-> "None", direction_advisor |-> "None",
      report_generation |-> "None", advisor_metadata |-> "empty",
      errors |-> <<>>, next_agents |-> <<>> ]

NoUpdates == [n \in Nodes |-> <<>>]

AllIdle == [n \in Nodes |-> "idle"]

\* the routing lists the advisor's LLM can return (a free list of strings)
RoutingDecisions ==
    { <<>>, <<"sota_tracker">>, <<"comparative_analysis">>,
      <<"sota_tracker", "comparative_analysis">>,
      <<"market_intelligence">>, <<"market_intelligence", "sota_tracker">> }

Range(seq) == {seq[i] : i \in DOMAIN seq}

should_run_specialists(state) ==
    LET next_agents == state.next_agents
    IN  IF next_agents = <<>>
        THEN <<"sota_tracker", "comparative_analysis">>
        ELSE SelectSeq(next_agents, LAMBDA agent : agent \in Specialists)

\* the edges leaving node n, the conditional edge evaluated on the new state
Edges(n, state) ==
    CASE n = "paper_analysis"       -> {"web_research"}
      [] n = "web_research"         -> {"advisor_specialist"}
      [] n = "advisor_specialist"   -> Range(should_run_specialists(state))
      [] n = "sota_tracker"         -> {"direction_advisor"}
      [] n = "comparative_analysis" -> {"direction_advisor"}
      [] n = "direction_advisor"    -> {"report_generation"}
      [] n = "report_generation"    -> {}

\* the except clause of a stage: the error entry appended to the errors list
ErrorEntry(n) == [agent |-> n, error |-> "e"]

Failure(n) == "errors" :> Append(pState.errors, ErrorEntry(n))

\* a node of the current super-step starts on the step's channel values
BeginTask ==
    /\ PipeOnly
    /\ pRun = "running"
    /\ \E n \in pActive :
         /\ pTask[n] = "idle"
         /\ pTask' = [pTask EXCEPT ![n] = "running"]
         /\ pBegun' = pBegun \cup {n}
    /\ UNCHANGED <<pInput, pState, pActive, pUpdate, pRun, pReturned, pFailed>>

\* node n returns the update upd; failed iff its except clause produced it
Return(n, upd, failed) ==
    /\ PipeOnly
    /\ pRun = "running" /\ pTask[n] = "running"
    /\ pTask' = [pTask EXCEPT ![n] = "returned"]
    /\ pUpdate' = [pUpdate EXCEPT ![n] = upd]
    /\ pReturned' = pReturned \cup {n}
    /\ pFailed' = IF failed THEN pFailed \cup {n} ELSE pFailed
    /\ UNCHANGED <<pInput, pState, pActive, pRun, pBegun>>

\* raises without a path or URL, and when loading or the SAS+HAS run raises
paper_analysis_node ==
    \E ok \in BOOLEAN :
        IF pInput /\ ok
        THEN Return("paper_analysis", "paper_analysis" :> "set", FALSE)
        ELSE Return("paper_analysis", Failure("paper_analysis"), TRUE)

\* raises "No paper analysis available" when paper_analysis is None
web_research_agent ==
    \E out \in {"raises", "empty", "results"} :
        IF pState.paper_analysis # "None" /\ out # "raises"
        THEN Return("web_research", "web_research" :> out, FALSE)
        ELSE Return("web_research", Failure("web_research"), TRUE)

BothSpecialists == <<"sota_tracker", "comparative_analysis">>

\* fallback routing without web results, else quality assessment, optional
\* gap filling (which returns web_research with its retrieval_results
\* extended by the additional searches) and the LLM's routing decision
advisor_specialist_agent ==
    \E ok \in BOOLEAN, gap \in BOOLEAN, decision \in RoutingDecisions :
        IF pState.paper_analysis = "None"
        THEN Return("advisor_specialist",
                    Failure("advisor_specialist") @@ ("next_agents" :> BothSpecialists), TRUE)
        ELSE IF pState.web_research \in {"None", "empty"}
        THEN Return("advisor_specialist",
                    ("next_agents" :> BothSpecialists) @@ ("advisor_metadata" :> "set"), FALSE)
        ELSE IF ~ok
        THEN Return("advisor_specialist",
                    Failure("advisor_specialist") @@ ("next_agents" :> BothSpecialists), TRUE)
        ELSE Return("advisor_specialist",
                    ("next_agents" :> decision) @@ ("advisor_metadata" :> "set")
                      @@ (IF gap THEN "web_research" :> "extended" ELSE <<>>), FALSE)

sota_tracker_agent ==
    \E ok \in BOOLEAN :
        IF ok THEN Return("sota_tracker", "sota_tracker" :> "set", FALSE)
        ELSE Return("sota_tracker", Failure("sota_tracker"), TRUE)

comparative_analysis_node ==
    \E ok \in BOOLEAN :
        IF ok THEN Return("comparative_analysis", "comparative_analysis" :> "set", FALSE)
        ELSE Return("comparative_analysis", Failure("comparative_analysis"), TRUE)

direction_advisor_node ==
    \E ok \in BOOLEAN :
        IF ok THEN Return("direction_advisor", "direction_advisor" :> "set", FALSE)
        ELSE Return("direction_advisor", Failure("direction_advisor"), TRUE)

\* state.get("paper_analysis", {}) is None when paper analysis failed, and
\* None.get raises; the fallback report built when the LLM call raises reads
\* sota_tracker.get and comparative_analysis.get, which raise on None
report_generation_node ==
    \E llm \in {"ok", "invoke_raises", "factory_raises"} :
        LET raises ==
              \/ pState.paper_analysis = "None"
              \/ llm = "factory_raises"
              \/ /\ llm = "invoke_raises"
                 /\ "None" \in {pState.sota_tracker, pState.comparative_analysis}
        IN  IF raises
            THEN Return("report_generation", Failure("report_generation"), TRUE)
            ELSE Return("report_generation", "report_generation" :> "set", FALSE)

Writers(k) == {n \in pActive : k \in DOMAIN pUpdate[n]}

\* (mutant) a step that ends as soon as one of its nodes has returned
StepDoneAny == \E n \in pActive : pTask[n] = "returned"

\* the super-step barrier: every node of the step has returned
StepDone == \A n \in pActive : pTask[n] = "returned"

\* the end of a super-step: the updates are applied and the next nodes chosen
ApplyWrites ==
    /\ PipeOnly
    /\ pRun = "running" /\ pActive # {} /\ StepDone
    /\ IF \E k \in DOMAIN pState : Cardinality(Writers(k)) > 1
       THEN pRun' = "aborted" /\ pActive' = {} /\ pState' = pState
       ELSE LET new  == [k \in DOMAIN pState |->
                           IF Writers(k) = {} THEN pState[k]
                           ELSE pUpdate[CHOOSE n \in Writers(k) : TRUE][k]]
                next == UNION {Edges(n, new) : n \in pActive}
            IN  /\ pState' = new
                /\ pActive' = next
                /\ pRun' = IF next = {} THEN "completed" ELSE "running"
    /\ pTask' = AllIdle
    /\ pUpdate' = NoUpdates
    /\ UNCHANGED <<pInput, pBegun, pReturned, pFailed>>

PipeInit ==
    /\ ReactIdle /\ SynthIdle /\ InvokeIdle /\ SummIdle /\ SasIdle /\ HasIdle /\ NodeIdle /\ AuthIdle /\ LlmIdle /\ ServerIdle
    /\ pInput \in BOOLEAN
    /\ pState = InitialState
    /\ pActive = {"paper_analysis"}
    /\ pTask = AllIdle
    /\ pUpdate = NoUpdates
    /\ pRun = "running"
    /\ pBegun = {} /\ pReturned = {} /\ pFailed = {}

PipeNext ==
    \/ BeginTask
    \/ paper_analysis_node
    \/ web_research_agent
    \/ advisor_specialist_agent
    \/ sota_tracker_agent
    \/ comparative_analysis_node
    \/ direction_advisor_node
    \/ report_generation_node
    \/ ApplyWrites

SpecPipeline == PipeInit /\ [][PipeNext]_vars

HasErrorOf(n) == \E i \in DOMAIN pState.errors : pState.errors[i].agent = n

(***************************************************************************)
(* C4: a run that was given an input document ends completed, with the    *)
(* report_generation field of the final state holding a report.            *)
(***************************************************************************)
C4_RunEndsWithReport ==
    (pInput /\ pRun \notin {"idle", "running"})
        => (pRun = "completed" /\ pState.report_generation # "None")

(***************************************************************************)
(* C5: a stage's internal failure never aborts the run, and the errors     *)
(* list of a finished run holds exactly one entry for every stage that     *)
(* failed, also when both specialists failed in the same step.             *)
(***************************************************************************)
C5_FailuresRecorded ==
    /\ pRun # "aborted"
    /\ pRun = "completed" =>
         \A n \in pFailed :
            Cardinality({i \in DOMAIN pState.errors : pState.errors[i].agent = n}) = 1

(***************************************************************************)
(* C6: the two specialists never return updates of the same state field in *)
(* one super-step.                                                         *)
(***************************************************************************)
C6_DisjointWrites ==
    pRun = "running" =>
        (DOMAIN pUpdate["sota_tracker"]) \cap (DOMAIN pUpdate["comparative_analysis"]) = {}

(***************************************************************************)
(* C7: the stages run in the fixed order: a stage has begun only if its    *)
(* predecessor has returned, and direction_advisor has begun only if every *)
(* specialist the routing function selected has returned and left its      *)
(* output or an error entry in the state.                                  *)
(***************************************************************************)
C7_StageOrder ==
    /\ "web_research" \in pBegun => "paper_analysis" \in pReturned
    /\ "advisor_specialist" \in pBegun => "web_research" \in pReturned
    /\ \A s \in Specialists :
          s \in pBegun => /\ "advisor_specialist" \in pReturned
                          /\ s \in Range(should_run_specialists(pState))
    /\ "direction_advisor" \in pBegun =>
          /\ Range(should_run_specialists(pState)) # {}
          /\ \A s \in Range(should_run_specialists(pState)) :
                /\ s \in pReturned
                /\ pState[s] # "None" \/ HasErrorOf(s)
    /\ "report_generation" \in pBegun => "direction_advisor" \in pReturned

\* both specialists were selected, sota_tracker failed, comparative analysis
\* succeeded, and direction_advisor has begun
C7_Witness ==
    /\ "direction_advisor" \in pBegun
    /\ pState.next_agents = <<"sota_tracker", "comparative_analysis">>
    /\ "sota_tracker" \in pFailed /\ HasErrorOf("sota_tracker")
    /\ pState.comparative_analysis = "set"

(***************************************************************************)
(* C15: the update a stage returns writes only that stage's own output     *)
(* field (for the advisor: next_agents and advisor_metadata) and the       *)
(* errors list, and a stage field that has been set is never changed by a  *)
(* later step.                                                             *)
(***************************************************************************)
C15_OwnFields(n) ==
    IF n = "advisor_specialist" THEN {"next_agents", "advisor_metadata"} ELSE {n}

C15_UpdatesWriteOwnField ==
    \A n \in Nodes : DOMAIN pUpdate[n] \subseteq (C15_OwnFields(n) \cup {"errors"})

C15_OwnFieldOnly ==
    /\ []C15_UpdatesWriteOwnField
    /\ [][\A k \in Nodes \ {"advisor_specialist"} :
             pState[k] # "None" => pState'[k] = pState[k]]_vars


(***************************************************************************)
(* The retry loops of the SAS+HAS processor.  An exception of chain.invoke *)
(* is known by its message, a list of words; the substring tests of the    *)
(* code are tests for a run of words.                                      *)
(***************************************************************************)
GroqToolUseError == <<"Error", "code:", "400", "tool_use_failed">>

FailedCallError == <<"Failed", "to", "call", "a", "function">>

BadRequestError == <<"Error", "code:", "400">>

RateLimitError == <<"Error", "code:", "429">>

ConnectionError == <<"Connection", "timed", "out">>

ErrorMessages ==
    {GroqToolUseError, FailedCallError, BadRequestError, RateLimitError, ConnectionError}

\* str(e).lower()
LowerAll(msg) == [i \in DOMAIN msg |-> Lower(msg[i])]

\* phrase in msg
Contains(msg, phrase) ==
    \E i \in 1..(Len(msg) - Len(phrase) + 1) :
        SubSeq(msg, i, i + Len(phrase) - 1) = phrase

\* (mutant) a handler that continues on every exception
IsToolUseErrorAlways(msg) == TRUE

\* (mutant) the classification made on the message as raised, not lowered
IsToolUseErrorAsRaised(msg) ==
    \/ Contains(msg, <<"tool_use_failed">>)
    \/ Contains(msg, <<"failed", "to", "call", "a", "function">>)
    \/ Contains(msg, <<"400">>)

\* 'tool_use_failed' in error_str or 'failed to call a function' in error_str
\* or '400' in str(e)
IsToolUseError(msg) ==
    LET error_str == LowerAll(msg)
    IN  \/ Contains(error_str, <<"tool_use_failed">>)
        \/ Contains(error_str, <<"failed", "to", "call", "a", "function">>)
        \/ Contains(msg, <<"400">>)

(***************************************************************************)
(* _synthesize_final_analysis: up to max_retries invocations of the        *)
(* structured LLM, the result enriched with the values of phases 1 and 2,  *)
(* and a fallback analysis built without the LLM when every attempt met a  *)
(* tool-use error.                                                         *)
(***************************************************************************)
SynthMaxRetries == 3

\* the most sections detected, and the most phase-1 summaries
MaxSections == 3

MaxSummaries == 2

SummaryPool ==
    [ section_title : {"Introduction (Merged)", "Methodology (Merged)"},
      detailed_summary : {"d1", "d2"},
      key_points : {<<>>, <<"k1", "k2">>} ]

\* the summaries of phase 1: none without sections, at least one with sections
SummaryLists(sections) ==
    IF sections = 0 THEN {<<>>}
    ELSE UNION {[1..n -> SummaryPool] : n \in 1..MaxSummaries}

\* create_hierarchy returns [level1, level2, level3]
Hierarchy == [l \in 1..3 |-> [level |-> l, summary |-> "summary"]]

EmptyDict == [t \in {} |-> ""]

\* {s.section_title: s.detailed_summary for s in section_summaries}: of two
\* summaries with one title the later one stays
section_summaries_dict(summaries) ==
    LET titles  == {summaries[i].section_title : i \in DOMAIN summaries}
        last(t) == CHOOSE i \in DOMAIN summaries :
                      /\ summaries[i].section_title = t
                      /\ \A j \in DOMAIN summaries :
                            summaries[j].section_title = t => j <= i
    IN  [t \in titles |-> summaries[last(t)].detailed_summary]

\* (mutant) seq[-n:]
TakeLast(seq, n) == SubSeq(seq, Len(seq) - Min(n, Len(seq)) + 1, Len(seq))

\* seq[:n]
Take(seq, n) == SubSeq(seq, 1, Min(n, Len(seq)))

\* all_contributions: the key_points of the summaries, in order
RECURSIVE all_contributions(_)
all_contributions(summaries) ==
    IF summaries = <<>> THEN <<>>
    ELSE Head(summaries).key_points \o all_contributions(Tail(summaries))

\* what the LLM puts into the three fields of its structured output
LlmAnalyses ==
    [ technical_depth : {"deep"},
      abstract_summary : {"abstract"},
      contributions : {<<"c">>},
      hierarchical_summaries : {<<>>, <<[level |-> 1, summary |-> "invented"]>>},
      section_summaries : {EmptyDict, [t \in {"Invented"} |-> "invented"]},
      total_sections : {0, MaxSections + 1} ]

\* (mutant) the enrichment that trusts the LLM's section count
EnrichKeepingCount(analysis) ==
    [analysis EXCEPT !.hierarchical_summaries = fHierarchy,
                     !.section_summaries = section_summaries_dict(fSummaries)]

\* the three assignments made on the LLM's object before it is returned
Enrich(analysis) ==
    [analysis EXCEPT !.hierarchical_summaries = fHierarchy,
                     !.section_summaries = section_summaries_dict(fSummaries),
                     !.total_sections = fSections]

\* first_page.split('\n')[:5][0]: str.split returns at least one string
FallbackTitle(first_page_lines) == Take(first_page_lines, 5)[1]

fallback_analysis ==
    [ paper_title |-> FallbackTitle(fPaper.head),
      technical_depth |-> "Moderate (fallback analysis)",
      abstract_summary |-> IF Len(fHierarchy) > 2 THEN fHierarchy[3].summary
                           ELSE "Analysis completed with partial data.",
      contributions |-> Take(all_contributions(fSummaries), 20),
      hierarchical_summaries |-> fHierarchy,
      section_summaries |-> section_summaries_dict(fSummaries),
      total_sections |-> fSections ]

FirstPageChars   == 2000
FirstPageBase    == 10000
FirstPageStep    == 2000
Level1Base       == 20000
Level1Step       == 4000
ContribBase      == 50
ContribStep      == 10
MethodBase       == 30
MethodStep       == 5
ResultBase       == 30
ResultStep       == 5
CitationBase     == 50
CitationStep     == 10

\* what chain.invoke is given on this attempt: first_page[:first_page_len]
\* of first_page = paper_content[:2000], and the five slice bounds
Inputs(attempt) ==
    [ first_page    |-> Min(Min(fPaper.length, FirstPageChars),
                            FirstPageBase - attempt * FirstPageStep),
      level1        |-> Level1Base - attempt * Level1Step,
      contributions |-> ContribBase - attempt * ContribStep,
      methodologies |-> MethodBase - attempt * MethodStep,
      results       |-> ResultBase - attempt * ResultStep,
      citations     |-> CitationBase - attempt * CitationStep ]

\* the documents tried: one longer than every budget whose first line is
\* the title, one shorter than the head whose first line is empty
Papers ==
    { [length |-> 12000, head |-> <<"A Paper Title", "The Authors">>],
      [length |-> 1200,  head |-> <<"", "A Paper Title">>] }

\* an attempt on which chain.invoke returns
SynthesisReturns ==
    /\ SynthOnly
    /\ fPc = "try"
    /\ fSent' = Append(fSent, Inputs(fAttempt))
    /\ \E analysis \in LlmAnalyses :
         /\ fLlmOut' = analysis
         /\ fResult' = Enrich(analysis)
    /\ fPc' = "returned"
    /\ fCalls' = fCalls + 1
    /\ UNCHANGED <<fAttempt, fSections, fSummaries, fHierarchy, fErrors, fPaper>>

\* (mutant) a loop over range(max_retries + 1)
InRangeInclusive(attempt, max_retries) == attempt <= max_retries

\* attempt is a value of range(max_retries)
InRange(attempt, max_retries) == attempt < max_retries

\* an attempt on which chain.invoke raises: a tool-use error moves to the
\* next attempt, or after the last one to the fallback; any other is re-raised
SynthesisFails ==
    /\ SynthOnly
    /\ fPc = "try"
    /\ fCalls' = fCalls + 1
    /\ fSent' = Append(fSent, Inputs(fAttempt))
    /\ \E msg \in ErrorMessages :
         /\ fErrors' = Append(fErrors, msg)
         /\ IF ~IsToolUseError(msg)
            THEN fPc' = "raised" /\ UNCHANGED <<fAttempt, fResult>>
            ELSE /\ fAttempt' = fAttempt + 1
                 /\ IF InRange(fAttempt + 1, SynthMaxRetries)
                    THEN fPc' = "try" /\ UNCHANGED fResult
                    ELSE fPc' = "returned" /\ fResult' = fallback_analysis
    /\ UNCHANGED <<fSections, fSummaries, fHierarchy, fLlmOut, fPaper>>

SynthInit ==
    /\ ReactIdle /\ PipeIdle /\ InvokeIdle /\ SummIdle /\ SasIdle /\ HasIdle /\ NodeIdle /\ AuthIdle /\ LlmIdle /\ ServerIdle
    /\ fPc = "try"
    /\ fAttempt = 0
    /\ fSections \in 0..MaxSections
    /\ fSummaries \in SummaryLists(fSections)
    /\ fHierarchy = Hierarchy
    /\ fLlmOut = <<>>
    /\ fResult = <<>>
    /\ fCalls = 0
    /\ fErrors = <<>>
    /\ fPaper \in Papers
    /\ fSent = <<>>

SynthNext == SynthesisReturns \/ SynthesisFails

SpecSynth == SynthInit /\ [][SynthNext]_vars

(***************************************************************************)
(* C8: whenever _synthesize_final_analysis has returned, from the LLM or   *)
(* from the fallback, the result's hierarchical_summaries is the phase-2   *)
(* hierarchy, its section_summaries is the title-to-detailed-summary map   *)
(* of the phase-1 summaries, and its total_sections is the number of       *)
(* detected sections.                                                      *)
(***************************************************************************)
C8_PhaseValuesOverwritten ==
    fPc = "returned" =>
        /\ fResult.hierarchical_summaries = fHierarchy
        /\ DOMAIN fResult.section_summaries =
              {fSummaries[i].section_title : i \in DOMAIN fSummaries}
        /\ \A i \in DOMAIN fSummaries :
              \/ fResult.section_summaries[fSummaries[i].section_title]
                    = fSummaries[i].detailed_summary
              \/ \E j \in DOMAIN fSummaries :
                    j > i /\ fSummaries[j].section_title = fSummaries[i].section_title
        /\ fResult.total_sections = fSections

\* the third attempt succeeded with an LLM object whose three fields all
\* differ from the values of phases 1 and 2
C8_Witness ==
    /\ fPc = "returned" /\ fAttempt = 2
    /\ fResult.technical_depth = "deep"
    /\ fLlmOut.hierarchical_summaries # fHierarchy
    /\ fLlmOut.section_summaries # section_summaries_dict(fSummaries)
    /\ fLlmOut.total_sections # fSections
    /\ fSections = 2 /\ Len(fSummaries) = 2


(***************************************************************************)
(* C11: when every attempt of the final synthesis failed with a            *)
(* tool-invocation error, exactly three LLM invocations were made, the     *)
(* call has returned without raising, and the result is the fallback       *)
(* built from the hierarchy and the aggregated lists, with no LLM call     *)
(* after the third.                                                        *)
(***************************************************************************)
C11_ToolInvocationErrors == {GroqToolUseError, FailedCallError, BadRequestError}

C11_FallbackAfterRetries ==
    LET onlyToolErrors ==
            \A i \in DOMAIN fErrors : fErrors[i] \in C11_ToolInvocationErrors
    IN  /\ fPc = "raised" => ~onlyToolErrors
        /\ fCalls <= 3
        /\ fPc = "returned" => ~ENABLED SynthNext
        /\ (onlyToolErrors /\ Len(fErrors) = 3) =>
              /\ fPc = "returned"
              /\ fCalls = 3
              /\ fLlmOut = <<>>
              /\ fResult.technical_depth = "Moderate (fallback analysis)"
              /\ fResult.hierarchical_summaries = fHierarchy
              /\ fResult.abstract_summary = fHierarchy[3].summary
              /\ fResult.contributions = all_contributions(fSummaries)

\* three attempts met the three kinds of tool-invocation error and the
\* fallback carries the four key points of two summaries
C11_Witness ==
    /\ fPc = "returned"
    /\ fErrors = <<GroqToolUseError, FailedCallError, BadRequestError>>
    /\ fCalls = 3
    /\ fResult.technical_depth = "Moderate (fallback analysis)"
    /\ fResult.contributions = <<"k1", "k2", "k1", "k2">>

(***************************************************************************)
(* C22: in the final-synthesis fallback paper_title is the first non-empty *)
(* line of the document head, also for a document whose first line is      *)
(* empty.                                                                  *)
(***************************************************************************)
C22_FirstNonEmpty(lines) ==
    LET filled == SelectSeq(lines, LAMBDA l : l # "")
    IN  IF filled = <<>> THEN "" ELSE filled[1]

C22_TitleIsFirstNonEmptyLine ==
    (fPc = "returned" /\ fLlmOut = <<>>) =>
        fResult.paper_title = C22_FirstNonEmpty(fPaper.head)

(***************************************************************************)
(* C26: on each successive final-synthesis attempt every shrinking input   *)
(* is given a strictly smaller budget than on the attempt before: the      *)
(* document head, the level-1 text, and the caps of the contribution,      *)
(* methodology, result and citation lists.  For a document longer than     *)
(* every budget the head actually sent is that budget.                     *)
(***************************************************************************)
C26_BudgetsShrink ==
    fPaper.length >= 10000 =>
        \A i \in 2..Len(fSent) :
            /\ fSent[i].first_page    < fSent[i - 1].first_page
            /\ fSent[i].level1        < fSent[i - 1].level1
            /\ fSent[i].contributions < fSent[i - 1].contributions
            /\ fSent[i].methodologies < fSent[i - 1].methodologies
            /\ fSent[i].results       < fSent[i - 1].results
            /\ fSent[i].citations     < fSent[i - 1].citations

(***************************************************************************)
(* safe_structured_invoke: max_retries + 1 invocations of the structured   *)
(* LLM; an exception whose message carries a failed generation is searched *)
(* for JSON, which is repaired and parsed against the schema; when every   *)
(* attempt failed the fallback value is returned, or the last error raised *)
(* when there is none.                                                     *)
(***************************************************************************)
InvokeMaxRetries == 2

MaxRepairAttempts == 3

\* the JSON text found in an error message, by what json.loads, repair_json
\* and schema.model_validate do with it
JsonKinds == {"valid", "markdown_keys", "broken", "wrong_schema", "markdown_wrong_schema"}

repair_json(json) ==
    CASE json = "markdown_keys"         -> "valid"
      [] json = "markdown_wrong_schema" -> "wrong_schema"
      [] OTHER                          -> json

\* json.loads raises JSONDecodeError
LoadsRaises(json) == json \in {"markdown_keys", "broken", "markdown_wrong_schema"}

\* schema.model_validate raises ValidationError
ValidateRaises(json) == json = "wrong_schema"

RECURSIVE ParseFrom(_, _)
ParseFrom(current_json, attempt) ==
    IF attempt >= MaxRepairAttempts THEN "JSONRepairError"
    ELSE IF LoadsRaises(current_json) THEN ParseFrom(repair_json(current_json), attempt + 1)
    ELSE IF ValidateRaises(current_json) THEN "JSONRepairError"
    ELSE "instance"

parse_with_repair(json_str) == ParseFrom(json_str, 0)

\* the exceptions structured_llm.invoke raises: the marker its message
\* carries, the JSON extract_json_from_error finds in it, and whether the
\* extraction itself raises
InvokeErrors ==
    {[marker |-> "none", failed_json |-> "None", extraction |-> "ok"]}
    \cup [ marker : {"failed_generation", "Failed to parse"},
           failed_json : {"None"} \cup JsonKinds, extraction : {"ok"} ]
    \cup {[marker |-> "failed_generation", failed_json |-> "None", extraction |-> "raises"]}

\* the inner try block: "skipped" without marker or without JSON, else the
\* parsed instance or the exception raised inside the block
RepairOutcome(err) ==
    IF err.marker = "none" THEN "skipped"
    ELSE IF err.extraction = "raises" THEN "Exception"
    ELSE IF err.failed_json = "None" THEN "skipped"
    ELSE parse_with_repair(repair_json(err.failed_json))

\* (mutant) an inner handler for JSONRepairError alone
CaughtRepairErrorOnly(exc) == exc = "JSONRepairError"

\* except (JSONRepairError, Exception)
CaughtByRepairHandler(exc) == exc \in {"JSONRepairError", "Exception"}

\* an attempt on which structured_llm.invoke returns
SafeInvokeReturns ==
    /\ InvokeOnly
    /\ iPc = "try"
    /\ iResult' = "instance"
    /\ iPc' = "returned"
    /\ iLog' = Append(iLog, "returned")
    /\ UNCHANGED <<iAttempt, iMaxRetries, iFallback, iSleeps>>

\* an attempt on which structured_llm.invoke raises: repair, back-off, the
\* next attempt, and after the last attempt the fallback or the last error
SafeInvokeFails ==
    /\ InvokeOnly
    /\ iPc = "try"
    /\ \E err \in InvokeErrors :
         LET repair == RepairOutcome(err)
         IN  /\ iLog' = Append(iLog, err)
             /\ IF repair = "instance"
                THEN /\ iResult' = "repaired_instance" /\ iPc' = "returned"
                     /\ UNCHANGED <<iAttempt, iSleeps>>
                ELSE IF repair # "skipped" /\ ~CaughtByRepairHandler(repair)
                THEN /\ iPc' = "raised"
                     /\ UNCHANGED <<iAttempt, iSleeps, iResult>>
                ELSE /\ iAttempt' = iAttempt + 1
                     /\ iSleeps' = IF iAttempt < iMaxRetries
                                   THEN Append(iSleeps, 2 ^ iAttempt) ELSE iSleeps
                     /\ IF iAttempt + 1 < iMaxRetries + 1
                        THEN iPc' = "try" /\ UNCHANGED iResult
                        ELSE IF iFallback # "None"
                        THEN iPc' = "returned" /\ iResult' = iFallback
                        ELSE iPc' = "raised" /\ UNCHANGED iResult
    /\ UNCHANGED <<iMaxRetries, iFallback>>

InvokeInit ==
    /\ ReactIdle /\ PipeIdle /\ SynthIdle /\ SummIdle /\ SasIdle /\ HasIdle /\ NodeIdle /\ AuthIdle /\ LlmIdle /\ ServerIdle
    /\ iPc = "try"
    /\ iAttempt = 0
    /\ iMaxRetries \in 0..InvokeMaxRetries
    /\ iFallback \in {"None", "empty_instance"}
    /\ iLog = <<>>
    /\ iSleeps = <<>>
    /\ iResult = "None"

InvokeNext == SafeInvokeReturns \/ SafeInvokeFails

SpecInvoke == InvokeInit /\ [][InvokeNext]_vars

(***************************************************************************)
(* C9: safe_structured_invoke called with a fallback value never raises:   *)
(* it returns a schema instance (from the LLM or from repaired JSON) or    *)
(* the fallback object itself, the fallback only after max_retries + 1     *)
(* failed attempts.                                                        *)
(***************************************************************************)
C9_FallbackNeverRaises ==
    iFallback # "None" =>
        /\ iPc # "raised"
        /\ iPc = "returned" =>
              \/ iResult \in {"instance", "repaired_instance"}
              \/ iResult = iFallback /\ Len(iLog) = iMaxRetries + 1
        /\ Len(iLog) <= iMaxRetries + 1

\* three attempts failed, one with an exception raised by the extraction
\* and one with JSON that no repair makes parse, and the fallback came back
C9_Witness ==
    /\ iPc = "returned" /\ iMaxRetries = 2
    /\ iFallback = "empty_instance" /\ iResult = iFallback
    /\ \E i \in DOMAIN iLog : iLog[i].extraction = "raises"
    /\ \E i \in DOMAIN iLog : iLog[i].failed_json = "broken"
    /\ iSleeps = <<1, 2>>


(***************************************************************************)
(* summarize_section: up to max_retries invocations of the structured LLM  *)
(* on a content window that shrinks with every attempt, and a placeholder  *)
(* summary when every attempt met a tool-use error.                        *)
(***************************************************************************)
SummMaxRetries == 3

SummBaseChars == 30000

SummCharsStep == 5000

\* information_density and novelty_score of the placeholder, in tenths
PlaceholderScore == 5

\* len(section_content) of the sections tried: empty, short, longer than the
\* last window, longer than every window
ContentLengths == {0, 100, 27000, 40000}

Sections ==
    [ type : {"abstract", "methodology"}, title : {"Section"}, length : ContentLengths ]

\* the summaries the LLM returns
LlmSummaries ==
    [ origin : {"llm"}, section_id : {"S1"}, section_type : {"abstract"},
      section_title : {"Section"}, detailed_summary : {<<"summary">>},
      information_density : {0, 9}, novelty_score : {9} ]

\* the summary built without the LLM
PlaceholderSummary(section) ==
    [ origin |-> "placeholder",
      section_id |-> Upper(section.type),
      section_type |-> section.type,
      section_title |-> section.title,
      detailed_summary |-> <<"Original content length", section.length>>,
      information_density |-> PlaceholderScore,
      novelty_score |-> PlaceholderScore ]

\* len(section_content[:max_chars]) on this attempt
TruncatedLength(section, attempt) ==
    Min(section.length, SummBaseChars - attempt * SummCharsStep)

\* an attempt on which chain.invoke returns
SummarizeReturns ==
    /\ SummOnly
    /\ sPc = "try"
    /\ sSent' = Append(sSent, TruncatedLength(sSection, sAttempt))
    /\ \E summary \in LlmSummaries : sResult' = summary
    /\ sPc' = "returned"
    /\ UNCHANGED <<sAttempt, sSection, sErrors>>

\* an attempt on which chain.invoke raises: a tool-use error moves to the
\* next attempt, or after the last one to the placeholder; any other is re-raised
SummarizeFails ==
    /\ SummOnly
    /\ sPc = "try"
    /\ sSent' = Append(sSent, TruncatedLength(sSection, sAttempt))
    /\ \E msg \in ErrorMessages :
         /\ sErrors' = Append(sErrors, msg)
         /\ IF ~IsToolUseError(msg)
            THEN sPc' = "raised" /\ UNCHANGED <<sAttempt, sResult>>
            ELSE /\ sAttempt' = sAttempt + 1
                 /\ IF sAttempt + 1 < SummMaxRetries
                    THEN sPc' = "try" /\ UNCHANGED sResult
                    ELSE sPc' = "returned" /\ sResult' = PlaceholderSummary(sSection)
    /\ UNCHANGED sSection

SummInit ==
    /\ ReactIdle /\ PipeIdle /\ SynthIdle /\ InvokeIdle /\ SasIdle /\ HasIdle /\ NodeIdle /\ AuthIdle /\ LlmIdle /\ ServerIdle
    /\ sPc = "try"
    /\ sAttempt = 0
    /\ sSection \in Sections
    /\ sSent = <<>>
    /\ sErrors = <<>>
    /\ sResult = <<>>

SummNext == SummarizeReturns \/ SummarizeFails

SpecSumm == SummInit /\ [][SummNext]_vars

(***************************************************************************)
(* C10: summarize_section never raises while every error it met is a       *)
(* tool-invocation error (tool_use_failed, failed to call a function,      *)
(* 400); when all three attempts failed that way, exactly three            *)
(* invocations were made and the placeholder summary is returned: the      *)
(* section's type, the length of the original content, density and         *)
(* novelty 0.5.                                                            *)
(***************************************************************************)
C10_ToolInvocationErrors == {GroqToolUseError, FailedCallError, BadRequestError}

C10_PlaceholderAfterRetries ==
    LET onlyToolErrors == \A i \in DOMAIN sErrors : sErrors[i] \in C10_ToolInvocationErrors
    IN  /\ sPc = "raised" => ~onlyToolErrors
        /\ Len(sSent) <= 3
        /\ (onlyToolErrors /\ Len(sErrors) = 3) =>
              /\ sPc = "returned"
              /\ Len(sSent) = 3
              /\ sResult.origin = "placeholder"
              /\ sResult.section_type = sSection.type
              /\ sResult.detailed_summary[2] = sSection.length
              /\ sResult.information_density = 5
              /\ sResult.novelty_score = 5

\* a 40000-character section met the three kinds of tool-invocation error
\* on windows of 30000, 25000 and 20000 characters and got the placeholder
C10_Witness ==
    /\ sPc = "returned"
    /\ sErrors = <<FailedCallError, BadRequestError, GroqToolUseError>>
    /\ sSection.length = 40000
    /\ sSent = <<30000, 25000, 20000>>
    /\ sResult = PlaceholderSummary(sSection)

(***************************************************************************)
(* The two retry loops side by side: one call of summarize_section or one  *)
(* call of _synthesize_final_analysis.                                     *)
(***************************************************************************)
RetryInit == SummInit \/ SynthInit

RetryNext == SummNext \/ SynthNext

SpecRetry == RetryInit /\ [][RetryNext]_vars

(***************************************************************************)
(* C28: in summarize_section and in _synthesize_final_analysis an LLM      *)
(* error that is not a tool-invocation failure is re-raised on the attempt *)
(* where it occurs: that attempt is the last invocation, nothing runs      *)
(* after the raise, and no placeholder or fallback result is returned.     *)
(***************************************************************************)
C28_ToolInvocationErrors == {GroqToolUseError, FailedCallError, BadRequestError}

C28_OtherErrorsRaiseAtOnce ==
    /\ (sErrors # <<>> /\ sErrors[Len(sErrors)] \notin C28_ToolInvocationErrors) =>
          /\ sPc = "raised"
          /\ Len(sSent) = Len(sErrors)
          /\ sResult = <<>>
          /\ ~ENABLED SummNext
    /\ (fErrors # <<>> /\ fErrors[Len(fErrors)] \notin C28_ToolInvocationErrors) =>
          /\ fPc = "raised"
          /\ fCalls = Len(fErrors)
          /\ fResult = <<>>
          /\ ~ENABLED SynthNext
    /\ \A i \in 1..(Len(sErrors) - 1) : sErrors[i] \in C28_ToolInvocationErrors
    /\ \A i \in 1..(Len(fErrors) - 1) : fErrors[i] \in C28_ToolInvocationErrors

\* the final synthesis met a tool-invocation failure, retried, and met a
\* rate-limit error on its second invocation, which it raised
C28_Witness ==
    /\ fPc = "raised" /\ fErrors = <<GroqToolUseError, RateLimitError>>
    /\ fCalls = 2 /\ fResult = <<>>

\* the same in summarize_section, on the first invocation
C28_WitnessSummarize ==
    /\ sPc = "raised" /\ sErrors = <<ConnectionError>> /\ Len(sSent) = 1
    /\ sResult = <<>>

(***************************************************************************)
(* Section detection and the global merge by type.  A document is its list *)
(* of lines.  A line is its stripped text, whether line.strip() has 100    *)
(* characters or more, and its characters as the runs str.split sees:      *)
(* "w" is a run of non-whitespace characters, " " a run of blanks.         *)
(***************************************************************************)
HeaderLengthLimit == 100

DocLines ==
    { [text |-> "1. Introduction", length |-> 15,  chars |-> <<"w", " ", "w">>],
      [text |-> "Results",         length |-> 7,   chars |-> <<"w">>],
      [text |-> "plain text",      length |-> 10,  chars |-> <<"w", " ", "w">>],
      [text |-> "",                length |-> 0,   chars |-> <<>>],
      [text |-> "a sentence of a hundred characters on the results",
                                   length |-> 100, chars |-> <<"w", " ", "w", " ", "w">>] }

\* the longest document tried, in lines
MaxLines == 4

Documents == UNION { [1..n -> DocLines] : n \in 0..MaxLines }

\* the first section type of SECTION_PATTERNS one of whose patterns is
\* found in the lowercased line, "None" when no pattern is
PatternType(text) ==
    CASE text = "1. Introduction" -> "introduction"
      [] text = "Results"         -> "results"
      [] text = "a sentence of a hundred characters on the results" -> "results"
      [] OTHER                    -> "None"

\* detected_type: re.search(pattern, line_lower) and len(line.strip()) < 100
detected_type(line) ==
    IF PatternType(line.text) # "None" /\ line.length < HeaderLengthLimit
    THEN PatternType(line.text) ELSE "None"

\* SECTION_PATTERNS[type]['importance'], in hundredths
Importance(type) == IF type = "introduction" THEN 95 ELSE 100

\* '\n'.join(current_content)
RECURSIVE JoinLines(_)
JoinLines(content) ==
    IF content = <<>> THEN <<>>
    ELSE IF Len(content) = 1 THEN content[1].chars
    ELSE content[1].chars \o <<"\n">> \o JoinLines(Tail(content))

\* len(text.split()): the runs of non-whitespace characters
CountWords(text) ==
    Cardinality({ i \in DOMAIN text :
                    text[i] = "w" /\ (i = 1 \/ text[i - 1] # "w") })

\* the section saved when a header or the end of the document is reached
SectionOf(current, content) ==
    [ type |-> current.type, title |-> current.title,
      content |-> JoinLines(content), start_position |-> current.start,
      word_count |-> CountWords(JoinLines(content)),
      importance |-> Importance(current.type) ]

\* current_section = None
NoSection == [type |-> "None", title |-> "", start |-> 0]

\* current_section and current_content: a section and a non-empty list
Saves(current, content) == current.type # "None" /\ content # <<>>

\* the for loop over the lines from line i on, and the save after it
RECURSIVE DetectFrom(_, _, _, _, _)
DetectFrom(lines, i, current, content, sections) ==
    LET saved == IF Saves(current, content)
                 THEN Append(sections, SectionOf(current, content)) ELSE sections
    IN  IF i > Len(lines) THEN saved
        ELSE IF detected_type(lines[i]) # "None"
        THEN DetectFrom(lines, i + 1,
                        [type |-> detected_type(lines[i]), title |-> lines[i].text,
                         start |-> i - 1],
                        <<>>, saved)
        ELSE IF current.type # "None"
        THEN DetectFrom(lines, i + 1, current, Append(content, lines[i]), sections)
        ELSE DetectFrom(lines, i + 1, current, content, sections)

detect_sections(lines) == DetectFrom(lines, 1, NoSection, <<>>, <<>>)

\* f"{s_type.capitalize()} (Merged)"
MergedTitle(type) ==
    IF type = "introduction" THEN "Introduction (Merged)" ELSE "Results (Merged)"

\* (mutant) contents concatenated without the separator
MergeContentBare(content, more) == content \o more

\* merged_map[s_type]['content'] += "\n\n" + section['content']
MergeContent(content, more) == content \o <<"\n", "\n">> \o more

\* the for loop over the sections from section i on; merged is the list of
\* merged_map's values in type_order
RECURSIVE GroupFrom(_, _, _)
GroupFrom(sections, i, merged) ==
    IF i > Len(sections) THEN merged
    ELSE LET section == sections[i]
             known   == { k \in DOMAIN merged : merged[k].type = section.type }
         IN  IF known = {}
             THEN GroupFrom(sections, i + 1,
                            Append(merged, [section EXCEPT !.title = MergedTitle(section.type)]))
             ELSE LET k == CHOOSE k \in known : TRUE
                  IN  GroupFrom(sections, i + 1,
                                [merged EXCEPT
                                   ![k].content = MergeContent(@, section.content),
                                   ![k].word_count = @ + section.word_count])

group_sections_globally(sections) ==
    IF sections = <<>> THEN <<>> ELSE GroupFrom(sections, 1, <<>>)

DetectSections ==
    /\ SasOnly
    /\ dPc = "document"
    /\ dSections' = detect_sections(dLines)
    /\ dPc' = "detected"
    /\ UNCHANGED <<dLines, dGrouped>>

GroupSections ==
    /\ SasOnly
    /\ dPc = "detected"
    /\ dGrouped' = group_sections_globally(dSections)
    /\ dPc' = "grouped"
    /\ UNCHANGED <<dLines, dSections>>

SasInit ==
    /\ ReactIdle /\ PipeIdle /\ SynthIdle /\ InvokeIdle /\ SummIdle /\ HasIdle /\ NodeIdle /\ AuthIdle /\ LlmIdle /\ ServerIdle
    /\ dPc = "document"
    /\ dLines \in Documents
    /\ dSections = <<>>
    /\ dGrouped = <<>>

SasNext == DetectSections \/ GroupSections

SpecSections == SasInit /\ [][SasNext]_vars

RECURSIVE TotalWords(_)
TotalWords(sections) ==
    IF sections = <<>> THEN 0 ELSE Head(sections).word_count + TotalWords(Tail(sections))

(***************************************************************************)
(* C16: for every document with at least one line recognised as a section  *)
(* header (fewer than 100 characters, matching a section pattern),         *)
(* detect_sections returns at least one section, also when the header is   *)
(* the last line or only headers follow it.                                *)
(***************************************************************************)
C16_HeaderGivesSection ==
    (/\ dPc \in {"detected", "grouped"}
     /\ \E i \in DOMAIN dLines :
          dLines[i].length < 100 /\ dLines[i].text \in {"1. Introduction", "Results"})
    => Len(dSections) >= 1

(***************************************************************************)
(* C18: the global merge by type keeps the total word count: the sum of    *)
(* word_count over the merged sections equals the sum over the detected    *)
(* sections, and every merged section's word_count is the number of words  *)
(* of its merged content.                                                  *)
(***************************************************************************)
C18_MergeKeepsWordCount ==
    dPc = "grouped" =>
        /\ TotalWords(dGrouped) = TotalWords(dSections)
        /\ \A k \in DOMAIN dGrouped :
             dGrouped[k].word_count = CountWords(dGrouped[k].content)
        /\ \A k \in DOMAIN dSections :
             \E g \in DOMAIN dGrouped : dGrouped[g].type = dSections[k].type

\* two introduction sections of two words each merged into one of four
C18_Witness ==
    /\ dPc = "grouped"
    /\ Len(dSections) = 2 /\ dSections[1].word_count = 2 /\ dSections[2].word_count = 2
    /\ Len(dGrouped) = 1 /\ dGrouped[1].word_count = 4
    /\ dGrouped[1].title = "Introduction (Merged)"

(***************************************************************************)
(* The hierarchy.  create_hierarchy calls create_level1_summary,           *)
(* create_level2_summary and create_level3_summary in turn; each makes one *)
(* LLM invocation and builds one HierarchicalLevel.                        *)
(***************************************************************************)
Level1Cap == 50
Level2Cap == 20
Level3Cap == 10

\* the longest list of section summaries tried
MaxHasSummaries == 3

\* the key_points of the summary at position tag: n points, all different
KeyPoints(tag, n) == [k \in 1..n |-> <<tag, k>>]

\* len(summary.key_points) of the summaries tried
KeyPointCounts == {0, 7, 26}

SummaryInputs ==
    UNION { { [i \in 1..n |-> [section_type |-> "introduction",
                               key_points |-> KeyPoints(i, counts[i])]] :
              counts \in [1..n -> KeyPointCounts] } : n \in 0..MaxHasSummaries }

\* all_key_points: the key_points of every summary, in order
RECURSIVE all_key_points(_)
all_key_points(section_summaries) ==
    IF section_summaries = <<>> THEN <<>>
    ELSE Head(section_summaries).key_points \o all_key_points(Tail(section_summaries))

\* self.llm.invoke raises, or its content fails HierarchicalLevel's
\* validation: the call of create_hierarchy raises
LevelOf(pc) == CASE pc = "level1" -> 1 [] pc = "level2" -> 2 [] pc = "level3" -> 3

HierarchyRaises ==
    /\ HasOnly
    /\ hPc \in {"level1", "level2", "level3"}
    /\ hCalls' = Append(hCalls, LevelOf(hPc))
    /\ hPc' = "raised"
    /\ UNCHANGED <<hSummaries, hLevels>>

create_level1_summary ==
    /\ HasOnly
    /\ hPc = "level1"
    /\ hLevels' = << [level |-> 1, summary |-> "response.content",
                      key_contributions |-> Take(all_key_points(hSummaries), Level1Cap),
                      scope |-> "Detailed section-level analysis with technical specifics"] >>
    /\ hCalls' = Append(hCalls, LevelOf(hPc))
    /\ hPc' = "level2"
    /\ UNCHANGED hSummaries

create_level2_summary ==
    /\ HasOnly
    /\ hPc = "level2"
    /\ hLevels' = Append(hLevels,
                     [level |-> 2, summary |-> "response.content",
                      key_contributions |-> Take(hLevels[1].key_contributions, Level2Cap),
                      scope |-> "Cross-section synthesis of contributions and findings"])
    /\ hCalls' = Append(hCalls, LevelOf(hPc))
    /\ hPc' = "level3"
    /\ UNCHANGED hSummaries

\* the third level, and the return of [level1, level2, level3]
create_level3_summary ==
    /\ HasOnly
    /\ hPc = "level3"
    /\ hLevels' = Append(hLevels,
                     [level |-> 3, summary |-> "response.content",
                      key_contributions |-> Take(hLevels[2].key_contributions, Level3Cap),
                      scope |-> "Executive overview for quick understanding"])
    /\ hCalls' = Append(hCalls, LevelOf(hPc))
    /\ hPc' = "returned"
    /\ UNCHANGED hSummaries

HasInit ==
    /\ ReactIdle /\ PipeIdle /\ SynthIdle /\ InvokeIdle /\ SummIdle /\ SasIdle /\ NodeIdle /\ AuthIdle /\ LlmIdle /\ ServerIdle
    /\ hPc = "level1"
    /\ hSummaries \in SummaryInputs
    /\ hLevels = <<>>
    /\ hCalls = <<>>

HasNext ==
    \/ create_level1_summary \/ create_level2_summary \/ create_level3_summary
    \/ HierarchyRaises

SpecHierarchy == HasInit /\ [][HasNext]_vars

(***************************************************************************)
(* C17: create_hierarchy, when it returns, returns exactly three levels    *)
(* numbered 1, 2, 3 in that order; level 1's key_contributions is a prefix *)
(* of the aggregated key points, each further level's a prefix of the      *)
(* previous level's, and the lengths are non-increasing and at most 50, 20 *)
(* and 10.                                                                 *)
(***************************************************************************)
C17_IsPrefix(short, long) ==
    Len(short) <= Len(long) /\ \A i \in DOMAIN short : short[i] = long[i]

RECURSIVE C17_Aggregated(_)
C17_Aggregated(summaries) ==
    IF summaries = <<>> THEN <<>>
    ELSE Head(summaries).key_points \o C17_Aggregated(Tail(summaries))

C17_ThreeLevelsOfPrefixes ==
    hPc = "returned" =>
        /\ Len(hLevels) = 3
        /\ \A i \in 1..3 : hLevels[i].level = i
        /\ C17_IsPrefix(hLevels[1].key_contributions, C17_Aggregated(hSummaries))
        /\ C17_IsPrefix(hLevels[2].key_contributions, hLevels[1].key_contributions)
        /\ C17_IsPrefix(hLevels[3].key_contributions, hLevels[2].key_contributions)
        /\ Len(hLevels[1].key_contributions) <= 50
        /\ Len(hLevels[2].key_contributions) <= 20
        /\ Len(hLevels[3].key_contributions) <= 10

\* 78 key points: the levels keep the first 50, 20 and 10 of them
C17_Witness ==
    /\ hPc = "returned"
    /\ Len(C17_Aggregated(hSummaries)) = 78
    /\ Len(hLevels[1].key_contributions) = 50
    /\ Len(hLevels[2].key_contributions) = 20
    /\ Len(hLevels[3].key_contributions) = 10
    /\ hLevels[3].key_contributions[10] = <<1, 10>>


(***************************************************************************)
(* paper_analysis_node: the stage loads the paper, runs process_paper      *)
(* (sections, the hierarchy above, final synthesis), the reasoning pass,   *)
(* and returns an update; one except clause covers the whole body.         *)
(***************************************************************************)
NodeAndHasOnly == UNCHANGED <<reactVars, pipeVars, synthVars, invokeVars, summVars, sasVars, authVars, llmVars, serverVars>>

\* how PdfReader goes on a local file
PathExtractions == {"ok", "reader_error"}

\* how the download and PdfReader go on a URL
UrlExtractions == {"ok", "unsupported_browser", "http_403", "http_error",
                   "request_error", "reader_error"}

PriorError == [agent |-> "web_research", error |-> "earlier"]

NodeInputs ==
    { [kind |-> "none", extraction |-> "none", errors |-> pr] :
        pr \in {<<>>, <<PriorError>>} }
    \cup { [kind |-> "path", extraction |-> x, errors |-> pr] :
        x \in PathExtractions, pr \in {<<>>, <<PriorError>>} }
    \cup { [kind |-> "url", extraction |-> x, errors |-> pr] :
        x \in UrlExtractions, pr \in {<<>>, <<PriorError>>} }

\* the except clause returns the message as the text
load_paper_from_path(x) ==
    IF x = "ok" THEN [raised |-> FALSE, value |-> "text"]
    ELSE [raised |-> FALSE, value |-> "Error loading uploaded paper: e"]

\* every except clause raises; a Response with an error status is falsy,
\* so the 403 message is never chosen
load_pdf_from_url(x) ==
    CASE x = "ok" -> [raised |-> FALSE, value |-> "text"]
      [] x = "unsupported_browser" ->
            [raised |-> TRUE, value |-> "Error processing PDF: ScienceDirect blocked the request"]
      [] x \in {"http_403", "http_error"} -> [raised |-> TRUE, value |-> "HTTP Error: e"]
      [] x = "request_error" -> [raised |-> TRUE, value |-> "Failed to download PDF: e"]
      [] x = "reader_error" -> [raised |-> TRUE, value |-> "Error processing PDF: e"]

NoUpdate == [key |-> "None", paper_analysis |-> "None", errors |-> <<>>]

\* state["errors"].append(...) written with two entries
CaughtTwice(errors, e) ==
    errors \o << [agent |-> "paper_analysis", error |-> e],
                 [agent |-> "paper_analysis", error |-> e] >>

\* state["errors"].append({"agent": "paper_analysis", "error": str(e)})
Caught(errors, e) == Append(errors, [agent |-> "paper_analysis", error |-> e])

\* the except clause
NodeExcept(e) ==
    /\ nErrors' = Caught(nErrors, e)
    /\ nUpdate' = [key |-> "errors", paper_analysis |-> "None", errors |-> nErrors']
    /\ nPc' = "returned"

\* STEP 1
LoadPaper ==
    /\ NodeOnly
    /\ nPc = "load"
    /\ \/ /\ nInput.kind = "none"
          /\ NodeExcept("Invalid input: paper path or URL is required")
          /\ UNCHANGED nContent
       \/ /\ nInput.kind = "path"
          /\ nContent' = load_paper_from_path(nInput.extraction).value
          /\ nPc' = "process"
          /\ UNCHANGED <<nErrors, nUpdate>>
       \/ /\ nInput.kind = "url"
          /\ LET r == load_pdf_from_url(nInput.extraction)
             IN  IF r.raised
                 THEN NodeExcept(r.value) /\ UNCHANGED nContent
                 ELSE /\ nContent' = r.value
                      /\ nPc' = "process"
                      /\ UNCHANGED <<nErrors, nUpdate>>
    /\ UNCHANGED <<nInput, nProcessed, nAnalysis>>

\* process_paper, phase 1: detect_sections and process_all_sections on
\* paper_content; a section's summarization may raise
ProcessSections ==
    /\ NodeAndHasOnly
    /\ nPc = "process"
    /\ nProcessed' = nContent
    /\ \/ /\ NodeExcept("section error")
          /\ UNCHANGED hasVars
       \/ /\ hSummaries' \in SummaryInputs
          /\ hPc' = "level1"
          /\ hLevels' = <<>>
          /\ hCalls' = <<>>
          /\ nPc' = "hierarchy"
          /\ UNCHANGED <<nErrors, nUpdate>>
    /\ UNCHANGED <<nInput, nContent, nAnalysis>>

\* create_hierarchy returned its three levels to process_paper
HierarchyReturned ==
    /\ NodeOnly
    /\ nPc = "hierarchy"
    /\ hPc = "returned"
    /\ nPc' = "synthesis"
    /\ UNCHANGED <<nInput, nContent, nProcessed, nErrors, nAnalysis, nUpdate>>

\* create_hierarchy raised: nothing between it and the stage catches
HierarchyFailed ==
    /\ NodeOnly
    /\ nPc = "hierarchy"
    /\ hPc = "raised"
    /\ NodeExcept("level error")
    /\ UNCHANGED <<nInput, nContent, nProcessed, nAnalysis>>

\* process_paper, phase 3
FinalSynthesis ==
    /\ NodeOnly
    /\ nPc = "synthesis"
    /\ \/ NodeExcept("synthesis error")
       \/ nPc' = "reasoning" /\ UNCHANGED <<nErrors, nUpdate>>
    /\ UNCHANGED <<nInput, nContent, nProcessed, nAnalysis>>

\* STEP 3 and the return of the paper_analysis update
ReasoningRag ==
    /\ NodeOnly
    /\ nPc = "reasoning"
    /\ \/ NodeExcept("reasoning error") /\ UNCHANGED nAnalysis
       \/ /\ nAnalysis' = "final_analysis"
          /\ nUpdate' = [key |-> "paper_analysis", paper_analysis |-> "final_analysis",
                         errors |-> <<>>]
          /\ nPc' = "returned"
          /\ UNCHANGED nErrors
    /\ UNCHANGED <<nInput, nContent, nProcessed>>

NodeInit ==
    /\ ReactIdle /\ PipeIdle /\ SynthIdle /\ InvokeIdle /\ SummIdle /\ SasIdle /\ HasIdle /\ AuthIdle /\ LlmIdle /\ ServerIdle
    /\ nPc = "load"
    /\ nInput \in NodeInputs
    /\ nContent = "None"
    /\ nProcessed = "None"
    /\ nErrors = nInput.errors
    /\ nAnalysis = "None"
    /\ nUpdate = NoUpdate

NodeNext ==
    \/ LoadPaper \/ ProcessSections
    \/ create_level1_summary \/ create_level2_summary \/ create_level3_summary
    \/ HierarchyRaises
    \/ HierarchyReturned \/ HierarchyFailed
    \/ FinalSynthesis \/ ReasoningRag

SpecNode == NodeInit /\ [][NodeNext]_vars

(***************************************************************************)
(* C21: when text extraction fails, for a local path as for a URL, the     *)
(* stage records a paper_analysis error and process_paper (section         *)
(* detection, summarization) is never run on the failed input.             *)
(***************************************************************************)
C21_ExtractionFailed ==
    /\ nInput.kind \in {"path", "url"}
    /\ nInput.extraction # "ok"

C21_FailedExtractionIsRecorded ==
    C21_ExtractionFailed =>
        /\ nProcessed = "None"
        /\ nPc \in {"load", "returned"}
        /\ nPc = "returned" =>
              /\ nUpdate.key = "errors"
              /\ Len(nErrors) = Len(nInput.errors) + 1
              /\ nErrors[Len(nErrors)].agent = "paper_analysis"

(***************************************************************************)
(* C27: the three levels are built in order, one LLM call each, level N    *)
(* only after level N-1 returned; a failed call is the last one (no retry, *)
(* no higher level), and the stage then records exactly one paper_analysis *)
(* error entry and sets no paper_analysis field.                           *)
(***************************************************************************)
C27_InOrder ==
    /\ \A i \in 1..Len(hCalls) : hCalls[i] = i
    /\ \A i \in 1..Len(hLevels) : hLevels[i].level = i
    /\ Len(hCalls) <= 3
    /\ Len(hLevels) <= Len(hCalls)
    /\ Len(hCalls) <= Len(hLevels) + 1

C27_FailureEnds ==
    hPc = "raised" =>
        /\ Len(hCalls) = Len(hLevels) + 1
        /\ nPc \in {"hierarchy", "returned"}
        /\ nPc = "returned" =>
              /\ nErrors = Append(nInput.errors,
                                  [agent |-> "paper_analysis", error |-> "level error"])
              /\ nUpdate.key = "errors"
              /\ nUpdate.paper_analysis = "None"
              /\ nAnalysis = "None"

C27_LevelsInOrderFailureRecordedOnce ==
    nPc # "idle" => C27_InOrder /\ C27_FailureEnds

C27_Witness ==
    /\ nPc = "returned"
    /\ hPc = "raised"
    /\ hCalls = <<1, 2>>
    /\ Len(hLevels) = 1
    /\ nInput.errors = <<PriorError>>
    /\ Len(nErrors) = 2


(***************************************************************************)
(* Session access: get_current_user turns the request's bearer token into  *)
(* user_data (None when there is no token, when verification is not        *)
(* configured, or when the token does not verify), and check_session_access *)
(* decides from the session's user_id and user_data.                       *)
(***************************************************************************)
\* SUPABASE_URL and SUPABASE_JWT_SECRET: "" when unset
AuthConfigs == [url : {"", "https://project"}, secret : {"", "secret"}]

NoCredentials == [present |-> FALSE, alg |-> "None", validity |-> "None", sub |-> "None"]

\* a token: its header's alg, whether jwt.decode accepts it, its sub claim
Tokens ==
    { [present |-> TRUE, alg |-> a, validity |-> v, sub |-> u] :
        a \in {"HS256", "ES256"},
        v \in {"valid", "expired", "invalid"},
        u \in {"user1", "user2"} }
    \cup { [present |-> TRUE, alg |-> "HS256", validity |-> "valid", sub |-> "None"] }

\* session.get("user_id"): None, or the owner
SessionOwners == {"None", "", "user1"}

NoUser == [present |-> FALSE, sub |-> "None"]

verify_supabase_token(token, config) ==
    IF config.url = "" /\ config.secret = "" THEN NoUser
    ELSE IF token.alg \in {"ES256", "RS256"}
         THEN IF config.url = "" THEN NoUser
              ELSE IF token.validity = "valid"
                   THEN [present |-> TRUE, sub |-> token.sub]
                   ELSE NoUser
         ELSE IF config.secret = "" THEN NoUser
              ELSE IF token.validity = "valid"
                   THEN [present |-> TRUE, sub |-> token.sub]
                   ELSE NoUser

get_current_user(credentials, config) ==
    IF ~credentials.present THEN NoUser
    ELSE verify_supabase_token(credentials, config)

get_user_id(user_data) == IF ~user_data.present THEN "None" ELSE user_data.sub

check_session_access(session, user_data) ==
    IF session.user_id \in {"None", ""} THEN TRUE
    ELSE IF ~user_data.present THEN FALSE
    ELSE session.user_id = get_user_id(user_data)

\* the endpoint's Depends(get_current_user)
GetCurrentUser ==
    /\ AuthOnly
    /\ aPc = "request"
    /\ aUser' = get_current_user(aCredentials, aConfig)
    /\ aPc' = "identified"
    /\ UNCHANGED <<aConfig, aCredentials, aSession, aAllowed>>

CheckSessionAccess ==
    /\ AuthOnly
    /\ aPc = "identified"
    /\ aAllowed' = check_session_access(aSession, aUser)
    /\ aPc' = "checked"
    /\ UNCHANGED <<aConfig, aCredentials, aSession, aUser>>

AuthInit ==
    /\ ReactIdle /\ PipeIdle /\ SynthIdle /\ InvokeIdle /\ SummIdle /\ SasIdle /\ HasIdle /\ NodeIdle /\ LlmIdle /\ ServerIdle
    /\ aPc = "request"
    /\ aConfig \in AuthConfigs
    /\ aCredentials \in Tokens \cup {NoCredentials}
    /\ aSession \in [user_id : SessionOwners]
    /\ aUser = NoUser
    /\ aAllowed = FALSE

AuthNext == GetCurrentUser \/ CheckSessionAccess

SpecAuth == AuthInit /\ [][AuthNext]_vars

(***************************************************************************)
(* C23: when authentication is not configured, so that no request carries  *)
(* verified user data, check_session_access allows access to every         *)
(* session, also to one that has an owner user_id.                         *)
(***************************************************************************)
C23_NotConfigured == aConfig.url = "" /\ aConfig.secret = ""

C23_UnconfiguredAllowsAll ==
    (aPc = "checked" /\ C23_NotConfigured) => aAllowed


(***************************************************************************)
(* LLMFactory.get_llm with an llm_config: the provider comes from the      *)
(* agent's override or from the global provider, the key from api_keys     *)
(* under that provider, then from the legacy api_key, then from the        *)
(* provider's environment variable.                                        *)
(***************************************************************************)
Providers == {"groq", "google", "openai"}

LlmAgents == {"paper_analysis", "web_research"}

\* a key is told from every other key by where it was registered
NoKeyGiven == [from |-> "None", provider |-> "None"]
EmptyKey == [from |-> "empty", provider |-> "None"]
ApiKeysEntry(p) == [from |-> "api_keys", provider |-> p]
LegacyKey == [from |-> "api_key", provider |-> "None"]
EnvKey(p) == [from |-> "env", provider |-> p]

Falsy(key) == key.from \in {"None", "empty"}

\* llm_config["api_keys"]: per provider no entry, an empty string, or a key
ApiKeyMaps ==
    { [p \in Providers |->
          CASE m[p] = "absent" -> NoKeyGiven
            [] m[p] = "empty" -> EmptyKey
            [] m[p] = "key" -> ApiKeysEntry(p)] :
      m \in [Providers -> {"absent", "empty", "key"}] }

NoOverride == [agent |-> "None", provider |-> "None"]

\* llm_config["agents"]: no override, or one for web_research
AgentOverrides ==
    {NoOverride} \cup { [agent |-> "web_research", provider |-> p] :
                          p \in Providers \cup {"anthropic"} }

LlmConfigs ==
    { [provider |-> g, api_keys |-> m, api_key |-> l, agents |-> o] :
        g \in Providers \cup {""}, m \in ApiKeyMaps,
        l \in {NoKeyGiven, LegacyKey}, o \in AgentOverrides }

\* <PROVIDER>_API_KEY set or not, and AGENT_<AGENT>_PROVIDER
LlmEnvs == [keys : BOOLEAN, agent_provider : {"None", "openai"}]

\* agent in llm_config["agents"]
HasOverride(agent, config) == config.agents.agent = agent

\* AGENT_MODEL_CONFIG[agent][0]["provider"]
AgentDefaultProvider(agent) ==
    CASE agent = "paper_analysis" -> "groq"
      [] agent = "web_research" -> "google"

\* step 1 with the override ignored
ConfigProviderGlobalOnly(agent, config) == config.provider

\* step 1: the provider llm_config gives
ConfigProvider(agent, config) ==
    IF HasOverride(agent, config) THEN config.agents.provider ELSE config.provider

\* api_keys.get(provider) or llm_config.get("api_key")
ConfigKey(provider, config) ==
    LET entry == IF provider \in Providers THEN config.api_keys[provider] ELSE NoKeyGiven
    IN  IF ~Falsy(entry) THEN entry ELSE config.api_key

\* steps 2 and 3: no provider from llm_config
FallbackProvider(agent, env) ==
    IF env.agent_provider # "None" THEN env.agent_provider
    ELSE AgentDefaultProvider(agent)

get_llm(agent, config, env) ==
    LET p1 == ConfigProvider(agent, config)
        key1 == ConfigKey(p1, config)
        provider == IF p1 = "" THEN FallbackProvider(agent, env) ELSE p1
        key == IF ~Falsy(key1) THEN key1
               ELSE IF env.keys THEN EnvKey(provider) ELSE NoKeyGiven
    IN  IF provider \notin Providers
        THEN [raised |-> TRUE, provider |-> provider, api_key |-> key1]
        ELSE IF Falsy(key)
        THEN [raised |-> TRUE, provider |-> provider, api_key |-> key]
        ELSE [raised |-> FALSE, provider |-> provider, api_key |-> key]

GetLlm ==
    /\ LlmOnly
    /\ lPc = "call"
    /\ lResult' = get_llm(lAgent, lConfig, lEnv)
    /\ lPc' = IF lResult'.raised THEN "raised" ELSE "returned"
    /\ UNCHANGED <<lAgent, lConfig, lEnv>>

LlmInit ==
    /\ ReactIdle /\ PipeIdle /\ SynthIdle /\ InvokeIdle /\ SummIdle /\ SasIdle /\ HasIdle /\ NodeIdle /\ AuthIdle /\ ServerIdle
    /\ lPc = "call"
    /\ lAgent \in LlmAgents
    /\ lConfig \in LlmConfigs
    /\ lEnv \in LlmEnvs
    /\ lResult = <<>>

LlmNext == GetLlm

SpecLlm == LlmInit /\ [][LlmNext]_vars

(***************************************************************************)
(* C24: for an llm_config with a global provider, an api_keys map and      *)
(* optional per-agent overrides, get_llm(agent) selects the override's     *)
(* provider when the agent has an override and the global provider         *)
(* otherwise, and the key it uses is the api_keys entry of exactly that    *)
(* provider: that entry when one is registered, and never the entry of     *)
(* another provider.                                                       *)
(***************************************************************************)
C24_Selected ==
    IF lConfig.agents.agent = lAgent THEN lConfig.agents.provider ELSE lConfig.provider

C24_ProviderAndKeyMatch ==
    (lPc \in {"returned", "raised"} /\ lConfig.provider # "") =>
        /\ lResult.provider = C24_Selected
        /\ lResult.api_key.from = "api_keys" => lResult.api_key.provider = C24_Selected
        /\ (C24_Selected \in Providers /\ lConfig.api_keys[C24_Selected].from = "api_keys")
              => /\ lPc = "returned"
                 /\ lResult.api_key = ApiKeysEntry(C24_Selected)

C24_Witness ==
    /\ lPc = "returned"
    /\ lAgent = "web_research"
    /\ lConfig.agents = [agent |-> "web_research", provider |-> "google"]
    /\ lConfig.provider = "groq"
    /\ lConfig.api_keys["groq"].from = "api_keys"
    /\ lResult = [raised |-> FALSE, provider |-> "google", api_key |-> ApiKeysEntry("google")]


(***************************************************************************)
(* The API server on one session.  A stream request is handled in two      *)
(* steps: the handler stream_session_analysis tests the session's status   *)
(* and returns a StreamingResponse, and later the response's generator     *)
(* stream_pipeline_events runs: it sets the status to "processing",        *)
(* executes the graph, and sets "completed" or, in its except clause,      *)
(* "error".  Requests are served concurrently, so steps of different       *)
(* requests interleave.  The report, export and chat handlers read the     *)
(* session once and answer.                                                *)
(***************************************************************************)
\* the stream requests made on the session
MaxStreamRequests == 2

StreamRequests == 1..MaxStreamRequests

ReadEndpoints == {"report", "export", "chat"}

NoAnswer == [endpoint |-> "None", status |-> "None", access |-> FALSE, code |-> 0]

\* the status test of stream_session_analysis
StreamCode(status) ==
    IF status = "completed" THEN 400
    ELSE IF status = "processing" THEN 400
    ELSE 200

\* the handler: get_session, the status tests, return StreamingResponse(...)
StreamSessionAnalysis(r) ==
    /\ ServerOnly
    /\ vStream[r] = "new"
    /\ vStream' = [vStream EXCEPT ![r] =
                      IF StreamCode(vStatus) = 200 THEN "accepted" ELSE "rejected"]
    /\ UNCHANGED <<vStatus, vLast>>

\* stream_pipeline_events up to graph.stream
StreamBegins(r) ==
    /\ ServerOnly
    /\ vStream[r] = "accepted"
    /\ vStatus' = "processing"
    /\ vStream' = [vStream EXCEPT ![r] = "streaming"]
    /\ UNCHANGED vLast

\* graph.stream ran to its end
StreamCompletes(r) ==
    /\ ServerOnly
    /\ vStream[r] = "streaming"
    /\ vStatus' = "completed"
    /\ vStream' = [vStream EXCEPT ![r] = "done"]
    /\ UNCHANGED vLast

\* graph.stream raised: the except clause
StreamRaises(r) ==
    /\ ServerOnly
    /\ vStream[r] = "streaming"
    /\ vStatus' = "error"
    /\ vStream' = [vStream EXCEPT ![r] = "failed"]
    /\ UNCHANGED vLast

\* the tests of the read handlers with the status test left out
ReadCodeAnyStatus(status, access) ==
    IF ~access THEN 403 ELSE 200

\* get_session_report, export_session_report, deep_dive_chat: the tests
\* before the answer is built
ReadCode(status, access) ==
    IF ~access THEN 403
    ELSE IF status # "completed" THEN 400
    ELSE 200

ReadRequest ==
    /\ ServerOnly
    /\ \E e \in ReadEndpoints, access \in BOOLEAN :
          vLast' = [endpoint |-> e, status |-> vStatus, access |-> access,
                    code |-> ReadCode(vStatus, access)]
    /\ UNCHANGED <<vStatus, vStream>>

ServerInit ==
    /\ ReactIdle /\ PipeIdle /\ SynthIdle /\ InvokeIdle /\ SummIdle /\ SasIdle /\ HasIdle /\ NodeIdle /\ AuthIdle /\ LlmIdle
    /\ vStatus = "created"
    /\ vStream = [r \in StreamRequests |-> "new"]
    /\ vLast = NoAnswer

ServerNext ==
    \/ \E r \in StreamRequests :
          \/ StreamSessionAnalysis(r) \/ StreamBegins(r)
          \/ StreamCompletes(r) \/ StreamRaises(r)
    \/ ReadRequest

SpecServer == ServerInit /\ [][ServerNext]_vars

(***************************************************************************)
(* C29: for one session id at most one pipeline run is ever started        *)
(* through the stream endpoint, whatever the interleaving of the stream    *)
(* requests: at most one request gets to execute the graph.                *)
(***************************************************************************)
C29_Started == { r \in StreamRequests : vStream[r] \in {"streaming", "done", "failed"} }

C29_AtMostOneRun ==
    vStatus # "None" => Cardinality(C29_Started) <= 1

(***************************************************************************)
(* C30: the report, export and chat endpoints answer with data only for a  *)
(* session whose status is "completed", and reject with 400 otherwise;     *)
(* the status is "completed" only after a graph execution of the session   *)
(* finished without raising, and a run that raises sets it to "error".     *)
(***************************************************************************)
C30_AnswersOnlyCompleted ==
    /\ vLast.code = 200 => vLast.status = "completed"
    /\ (vLast.access /\ vLast.status # "completed") => vLast.code = 400

C30_CompletedAfterRun ==
    vStatus = "completed" => \E r \in StreamRequests : vStream[r] = "done"

C30_RunEndSetsStatus ==
    \A r \in StreamRequests :
        /\ (vStream[r] = "streaming" /\ vStream'[r] = "failed") => vStatus' = "error"
        /\ (vStream[r] = "streaming" /\ vStream'[r] = "done") => vStatus' = "completed"
        /\ (vStatus # "completed" /\ vStatus' = "completed")
              => \E q \in StreamRequests : vStream[q] = "streaming" /\ vStream'[q] = "done"

=============================================================================
